---- MODULE Spec2Model ----
(***************************************************************************)
(* swaystats: the provider / scheduling / render core.                     *)
(*                                                                         *)
(* Two specifications share this module:                                   *)
(*   SpecProvider  one provider instance (clock, CPU or memory) driven by  *)
(*                 its constructor and by MaybeRefresh calls;              *)
(*   Spec          the program: main's startup and tick loop, the click    *)
(*                 reader goroutine and the config watcher goroutine.      *)
(*                                                                         *)
(* Strings the program formats are modelled as records (Text) so that the  *)
(* formatting is computed, field by field, the way the code computes it.   *)
(* Floating point percentages are exact rationals [n, d] (d > 0).          *)
(***************************************************************************)
EXTENDS Integers, Sequences, FiniteSets, TLC

VARIABLES
    \* ---- SpecProvider ----
    prov,        \* the provider instance (a Provider record)
    built,       \* whether the constructor has run
    last,        \* record of the last operation on prov (history)
    attemptAt,   \* instant of the most recent read of the data source, -1 if none (history)
    everOk,      \* whether a read of the data source has succeeded so far (history)
    \* ---- both ----
    clock,       \* time.Now() in model time units
    \* ---- Spec: main goroutine ----
    pc,          \* main's position
    hasPath,     \* main's cfg.SourcePath # ""
    interval,    \* main's `interval`
    next,        \* waitUntilNextTickInterval's `next`
    current,     \* main's `current`: the provider list loaded this tick (index into lists)
    outq,        \* writes to the primary output the current call still has to make
    tick,        \* number of renderOnce calls made (history)
    lastRender,  \* record of the last renderOnce call (history)
    \* ---- Spec: shared ----
    stdout,      \* writes made to the primary output, in order
    stderr,      \* number of records written to the diagnostic stream, by kind
    lists,       \* every provider list built so far (the heap of provider objects)
    published,   \* the atomic.Value `providers`: index into lists of the stored list
    clickCh,     \* the buffered channel of clicks
    \* ---- Spec: click reader goroutine ----
    nread,       \* lines of standard input scanned so far
    delivered,   \* clicks passed to handleClick, in order (history)
    input,       \* what each line scanned so far was: "click" or "malformed" (history)
    \* ---- Spec: config watcher goroutine ----
    wOn,         \* whether the watcher goroutine runs
    wLast,       \* its `last` (-1: the zero time)
    wPending,    \* its `pending`
    wEvents,     \* watcher events and errors received so far
    \* ---- SpecRegistry ----
    registry,    \* the package variables reg and regOrder
    regLog,      \* the specs passed to Register so far, in call order (history)
    lastBuild,   \* record of the last BuildProviders call (history)
    \* ---- SpecSeverity ----
    sevCase,     \* two percents and a pair of thresholds, and what they are classified as
    ctorCase     \* a configured interval and thresholds, and the provider constructed from them

\* ------------------------------------------------------------------ bounds

\* Model time units per second (stands for int64(time.Second) = 1e9 ns).
Second == 2

\* Last instant the model's clock reaches.
MaxTime == 6

\* Largest value of one counter field read from /proc/stat or /proc/meminfo.
MaxCounter == 2

\* Modulus of unsigned arithmetic (stands for 2^64, beyond TLC's integers).
UintMod == 65536

\* Last instant the inter-tick wait of main sleeps to.
MaxClock == 4

\* Calls of renderOnce the tick loop makes.
MaxTicks == 2

\* Lines of standard input the click reader gets.
MaxLines == 3

\* Events and errors the config watcher receives.
MaxEvents == 1

\* Capacity of the click channel (stands for the 16 of make(chan clicks.Click, 16)).
ClickCap == 2

\* The debounce window in model time units (stands for 150ms).
Debounce == 1

\* Register calls made on the registry.
MaxRegs == 3

\* The longest single sleep of the inter-tick wait in model time units
\* (stands for 100ms).
SleepCap == 1

\* ------------------------------------------------------------------ text and blocks

\* A formatted string: prefix, sign, number, suffix (a sequence of pieces).
\*   "CPU 7%"   = [pre |-> "CPU", neg |-> FALSE, val |-> 7,  unit |-> <<"%">>]
\*   "CPU 7.3%" = [pre |-> "CPU", neg |-> FALSE, val |-> 73, unit |-> <<".1", "%">>]
\* (with ".1" the number is in tenths).
MkText(pre, neg, val, unit) == [pre |-> pre, neg |-> neg, val |-> val, unit |-> unit]

\* The empty string "".
EmptyText == MkText("", FALSE, 0, <<>>)

\* A string literal with no number in it.
Lit(s) == MkText(s, FALSE, 0, <<>>)

SeparatorWidth == 12

\* theme.DefaultPalette
ColorWarn == "#d08770"
ColorDanger == "#bf616a"

\* theme.ColorFor: the color of a severity, "" when the severity has none
\* (Block.Color is omitempty, so "" is the absent color).
ColorFor(sev) ==
    CASE sev = "Warn" -> ColorWarn
      [] sev = "Danger" -> ColorDanger
      [] OTHER -> ""

\* The zero value of Block.
ZeroBlock == [name |-> "", full_text |-> EmptyText, color |-> "", sbw |-> 0]

\* A Block literal as the providers build it (Separator false, fixed width).
MkBlock(name, text, color) ==
    [name |-> name, full_text |-> text, color |-> color, sbw |-> SeparatorWidth]

\* blocks.ErrorBlock
ErrorBlock(name, msg) == MkBlock(name, Lit(msg), ColorFor("Danger"))

\* ------------------------------------------------------------------ arithmetic

\* uint64 addition, subtraction and multiplication (wrapping).
UAdd(a, b) == (a + b) % UintMod
USub(a, b) == ((a - b) + UintMod) % UintMod
UMul(a, b) == (a * b) % UintMod

Abs(x) == IF x < 0 THEN -x ELSE x

RECURSIVE Gcd(_, _)
Gcd(a, b) == IF b = 0 THEN a ELSE Gcd(b, a % b)

\* The rational n/d (d > 0) in lowest terms.
Rat(n, d) ==
    LET g == Gcd(Abs(n), d)
    IN  [n |-> n \div g, d |-> d \div g]

RatZero == [n |-> 0, d |-> 1]

\* float comparison p >= t for an integer t
RatGeq(p, t) == p.n >= t * p.d

\* Integer division truncating toward zero (Go's float -> int64 conversion).
TruncDiv(a, b) == IF a >= 0 THEN a \div b ELSE -((-a) \div b)

\* Nearest integer to a/b (b > 0), ties to even: what %.1f does to 10*p.
RoundHalfEven(a, b) ==
    LET m == Abs(a)
        q == m \div b
        r == m % b
        up == (2 * r > b) \/ (2 * r = b /\ q % 2 = 1)
        k == IF up THEN q + 1 ELSE q
    IN  IF a < 0 THEN -k ELSE k

\* formatPercent(p, precision): the text of the percentage, without prefix.
\*   precision 0: strconv.FormatInt(int64(p+0.5), 10) + "%"
\*   otherwise:   fmt.Sprintf("%.1f%%", p)   (a negative p that rounds to zero prints "-0.0")
formatPercent(p, precision) ==
    IF precision = 0
    THEN LET k == TruncDiv(2 * p.n + p.d, 2 * p.d)
         IN  MkText("", k < 0, Abs(k), <<"%">>)
    ELSE LET t == RoundHalfEven(10 * p.n, p.d)
         IN  MkText("", p.n < 0, Abs(t), <<".1", "%">>)

\* fmt.Sprintf("%s %s", prefix, s)
WithPrefix(prefix, s) == [s EXCEPT !.pre = prefix]

\* The severity computed with exclusive comparisons.
SeverityForStrict(p, warn, danger) ==
    IF p.n > danger * p.d THEN "Danger"
    ELSE IF p.n > warn * p.d THEN "Warn"
    ELSE "Normal"

\* The severity a provider computes for percent p.
SeverityFor(p, warn, danger) ==
    IF RatGeq(p, danger) THEN "Danger"
    ELSE IF RatGeq(p, warn) THEN "Warn"
    ELSE "Normal"

\* ------------------------------------------------------------------ configuration

\* config.Defaults()
Defaults ==
    [TickHz |-> 1,
     Time |-> [Enabled |-> TRUE, Format |-> "2006-01-02 15:04:05"],
     CPU  |-> [Enabled |-> TRUE, IntervalSec |-> 2, WarnPercent |-> 70,
               DangerPercent |-> 90, Precision |-> 0, Prefix |-> "CPU"],
     Mem  |-> [Enabled |-> TRUE, IntervalSec |-> 5, WarnPercent |-> 70,
               DangerPercent |-> 90, Precision |-> 0, Prefix |-> "MEM",
               Format |-> "percent"],
     moduleOrder |-> <<>>]

\* The configurations the providers are constructed from: the defaults with
\* a short interval, and two that make every normalisation branch of the
\* constructors run (zero interval, inverted thresholds, out-of-range
\* precision, empty and mixed-case strings).
ProviderConfigs ==
    { [Defaults EXCEPT !.CPU.IntervalSec = 1, !.Mem.IntervalSec = 1],
      [Defaults EXCEPT !.CPU.IntervalSec = 0, !.Mem.IntervalSec = 2,
                       !.CPU.Precision = 1, !.Mem.Precision = 1,
                       !.CPU.Prefix = "", !.Mem.Prefix = "",
                       !.Mem.Format = "Used", !.Time.Format = "15:04"],
      [Defaults EXCEPT !.CPU.IntervalSec = 1, !.Mem.IntervalSec = 1,
                       !.CPU.WarnPercent = 40, !.CPU.DangerPercent = 30,
                       !.CPU.Precision = 2,
                       !.Mem.WarnPercent = 0, !.Mem.DangerPercent = 120,
                       !.Mem.Format = "bytes", !.Time.Format = ""] }

\* ------------------------------------------------------------------ providers

\* One record shape for the three provider structs (a field a kind does not
\* have stays at its zero value).
ZeroProvider ==
    [kind |-> "", intervalNs |-> 0, lastSampleNs |-> 0,
     prevTotal |-> 0, prevIdle |-> 0, havePrev |-> FALSE, lastPercent |-> RatZero,
     blk |-> ZeroBlock, warnThreshold |-> 0, dangerThreshold |-> 0,
     precision |-> 0, prefix |-> "", format |-> "", lastSec |-> 0]

\* What a sample / MaybeRefresh call yields: the provider afterwards, the
\* returned changed flag, and whether the data source was read.
Outcome(p, changed, read) == [p |-> p, changed |-> changed, read |-> read]

\* ---- data sources

\* readProcStat: an error, or the eight counters of the aggregate cpu line.
ProcStatErr == [err |-> TRUE, user |-> 0, nice |-> 0, system |-> 0, idle |-> 0,
                iowait |-> 0, irq |-> 0, softirq |-> 0, steal |-> 0]

ProcStatReads ==
    { [err |-> FALSE, user |-> u, nice |-> 0, system |-> 1, idle |-> i,
       iowait |-> 0, irq |-> 0, softirq |-> 0, steal |-> 0]
        : u \in 0..MaxCounter, i \in 0..MaxCounter }
    \cup {ProcStatErr}

\* /proc/meminfo as readMemInfo parses it: whether the file opened, the kB
\* values found (0 when the key is absent) and whether MemAvailable was there.
MemInfoErr == [err |-> TRUE, memTotal |-> 0, haveAvailable |-> FALSE,
               memAvailable |-> 0, memFree |-> 0, buffers |-> 0, cached |-> 0]

MemInfoReads ==
    { [err |-> FALSE, memTotal |-> 2 * t, haveAvailable |-> h,
       memAvailable |-> IF h THEN a ELSE 0, memFree |-> IF h THEN 0 ELSE a,
       buffers |-> 0, cached |-> IF h THEN 0 ELSE 1]
        : t \in 0..MaxCounter, h \in BOOLEAN, a \in 0..MaxCounter }
    \cup {MemInfoErr}

\* ---- CPU provider

\* CpuSampleFail with the guard on the existing block lost: the error block
\* replaces whatever was displayed.
CpuSampleFailOverwrites(c, now) ==
    Outcome([c EXCEPT !.blk = ErrorBlock("cpu", "cpu err"), !.lastSampleNs = now],
            FALSE, TRUE)

\* CpuSampleFail dropping the previous snapshot along with the failed read.
CpuSampleFailForgetsSnapshot(c, now) ==
    Outcome([c EXCEPT !.blk = IF c.blk.full_text = EmptyText
                              THEN ErrorBlock("cpu", "cpu err") ELSE @,
                      !.lastSampleNs = now,
                      !.havePrev = FALSE, !.prevTotal = 0, !.prevIdle = 0],
            FALSE, TRUE)

\* CpuProvider.sample, the read having failed: keep the block, or make the
\* error block if there is none yet; stamp the attempt; report no change.
CpuSampleFail(c, now) ==
    Outcome([c EXCEPT !.blk = IF c.blk.full_text = EmptyText
                              THEN ErrorBlock("cpu", "cpu err") ELSE @,
                      !.lastSampleNs = now],
            FALSE, TRUE)

\* CpuSampleOk reporting zero, not the last percentage, when the total has
\* not moved.
CpuSampleOkZeroOnNoDelta(c, now, rd) ==
    LET idleAll == UAdd(rd.idle, rd.iowait)
        nonIdle == UAdd(UAdd(UAdd(UAdd(UAdd(rd.user, rd.nice), rd.system),
                                  rd.irq), rd.softirq), rd.steal)
        total == UAdd(idleAll, nonIdle)
        deltaTotal == USub(total, c.prevTotal)
        deltaIdle == USub(idleAll, c.prevIdle)
        percent == IF c.havePrev
                   THEN IF deltaTotal > 0
                        THEN Rat((deltaTotal - deltaIdle) * 100, deltaTotal)
                        ELSE RatZero
                   ELSE RatZero
        c1 == [c EXCEPT !.havePrev = TRUE, !.prevTotal = total,
                        !.prevIdle = idleAll, !.lastSampleNs = now]
        formattedPercent == formatPercent(percent, c.precision)
    IN  IF formattedPercent = formatPercent(c.lastPercent, c.precision)
           /\ c.blk.full_text # EmptyText
        THEN Outcome([c1 EXCEPT !.lastPercent = percent], FALSE, TRUE)
        ELSE LET sev == SeverityFor(percent, c.warnThreshold, c.dangerThreshold)
                 full == WithPrefix(c.prefix, formattedPercent)
             IN  Outcome([c1 EXCEPT !.lastPercent = percent,
                                    !.blk = MkBlock("cpu", full, ColorFor(sev))],
                         TRUE, TRUE)

\* CpuProvider.sample, the read having returned the counters rd.
CpuSampleOk(c, now, rd) ==
    LET idleAll == UAdd(rd.idle, rd.iowait)
        nonIdle == UAdd(UAdd(UAdd(UAdd(UAdd(rd.user, rd.nice), rd.system),
                                  rd.irq), rd.softirq), rd.steal)
        total == UAdd(idleAll, nonIdle)
        deltaTotal == USub(total, c.prevTotal)
        deltaIdle == USub(idleAll, c.prevIdle)
        percent == IF c.havePrev
                   THEN IF deltaTotal > 0
                        THEN Rat((deltaTotal - deltaIdle) * 100, deltaTotal)
                        ELSE c.lastPercent
                   ELSE RatZero
        c1 == [c EXCEPT !.havePrev = TRUE, !.prevTotal = total,
                        !.prevIdle = idleAll, !.lastSampleNs = now]
        formattedPercent == formatPercent(percent, c.precision)
    IN  IF formattedPercent = formatPercent(c.lastPercent, c.precision)
           /\ c.blk.full_text # EmptyText
        THEN Outcome([c1 EXCEPT !.lastPercent = percent], FALSE, TRUE)
        ELSE LET sev == SeverityFor(percent, c.warnThreshold, c.dangerThreshold)
                 full == WithPrefix(c.prefix, formattedPercent)
             IN  Outcome([c1 EXCEPT !.lastPercent = percent,
                                    !.blk = MkBlock("cpu", full, ColorFor(sev))],
                         TRUE, TRUE)

\* CpuProvider.sample
CpuSample(c, now, rd) ==
    IF rd.err THEN CpuSampleFail(c, now) ELSE CpuSampleOk(c, now, rd)

\* CpuMaybeRefresh with the interval gate lost: every call samples.
CpuMaybeRefreshNoGate(c, now, rd) == CpuSample(c, now, rd)

\* CpuProvider.MaybeRefresh
CpuMaybeRefresh(c, now, rd) ==
    IF now - c.lastSampleNs < c.intervalNs
    THEN Outcome(c, FALSE, FALSE)
    ELSE CpuSample(c, now, rd)

\* NewCpuProvider without the upper limit on the interval.
NewCpuStructNoUpperLimit(cfg) ==
    LET iv0 == cfg.CPU.IntervalSec
        iv == IF iv0 <= 0 THEN 2 ELSE iv0
        warn == IF cfg.CPU.WarnPercent <= 0 THEN 70 ELSE cfg.CPU.WarnPercent
        danger0 == cfg.CPU.DangerPercent
        danger1 == IF danger0 <= warn THEN warn + 10 ELSE danger0
        danger == IF danger1 > 100 THEN 100 ELSE danger1
        precision == IF cfg.CPU.Precision < 0 \/ cfg.CPU.Precision > 1
                     THEN 0 ELSE cfg.CPU.Precision
        prefix == IF cfg.CPU.Prefix = "" THEN "CPU" ELSE cfg.CPU.Prefix
    IN  [ZeroProvider EXCEPT !.kind = "cpu", !.intervalNs = iv * Second,
                             !.warnThreshold = warn, !.dangerThreshold = danger,
                             !.precision = precision, !.prefix = prefix]

\* NewCpuProvider up to its struct literal: the normalised configuration.
NewCpuStruct(cfg) ==
    LET iv0 == cfg.CPU.IntervalSec
        iv1 == IF iv0 <= 0 THEN 2 ELSE iv0
        iv == IF iv1 > 30 THEN 30 ELSE iv1
        warn == IF cfg.CPU.WarnPercent <= 0 THEN 70 ELSE cfg.CPU.WarnPercent
        danger0 == cfg.CPU.DangerPercent
        danger1 == IF danger0 <= warn THEN warn + 10 ELSE danger0
        danger == IF danger1 > 100 THEN 100 ELSE danger1
        precision == IF cfg.CPU.Precision < 0 \/ cfg.CPU.Precision > 1
                     THEN 0 ELSE cfg.CPU.Precision
        prefix == IF cfg.CPU.Prefix = "" THEN "CPU" ELSE cfg.CPU.Prefix
        cp == [ZeroProvider EXCEPT !.kind = "cpu", !.intervalNs = iv * Second,
                                   !.warnThreshold = warn, !.dangerThreshold = danger,
                                   !.precision = precision, !.prefix = prefix]
    IN  cp

\* NewCpuProvider: the struct, then a forced initial sample at time.Now().
NewCpuProvider(cfg, now, rd) == CpuSample(NewCpuStruct(cfg), now, rd).p

\* ---- memory provider

\* readMemInfo: the parsed file turned into (total, available, used, percent),
\* or an error when the file cannot be opened or MemTotal is zero or absent.
readMemInfo(rd) ==
    IF rd.err \/ rd.memTotal = 0
    THEN [err |-> TRUE, total |-> 0, available |-> 0, used |-> 0, percent |-> RatZero]
    ELSE LET availableKb == IF rd.haveAvailable
                            THEN rd.memAvailable
                            ELSE UAdd(UAdd(rd.memFree, rd.buffers), rd.cached)
             used == UMul(USub(rd.memTotal, availableKb), 1024)
             total == UMul(rd.memTotal, 1024)
             available == UMul(availableKb, 1024)
         IN  [err |-> FALSE, total |-> total, available |-> available, used |-> used,
              percent |-> Rat(used * 100, total)]

\* humanBytes' loop: the exponent and divisor it stops at for b >= 1024.
RECURSIVE HumanScale(_, _, _)
HumanScale(n, div, exp) ==
    IF n >= 1024 /\ exp < 4
    THEN HumanScale(n \div 1024, div * 1024, exp + 1)
    ELSE [div |-> div, exp |-> exp]

\* "KMGTPE"[exp]
UnitLetter(exp) ==
    CASE exp = 0 -> "K" [] exp = 1 -> "M" [] exp = 2 -> "G"
      [] exp = 3 -> "T" [] exp = 4 -> "P" [] OTHER -> "E"

\* humanBytes(b) followed by a suffix word, under a prefix:
\* "%dB" below 1024, "%.1f?iB" for a scaled value below 10, else "%.0f?iB".
HumanText(prefix, b, word) ==
    IF b < 1024
    THEN MkText(prefix, FALSE, b, <<"B", word>>)
    ELSE LET sc == HumanScale(b \div 1024, 1024, 0)
         IN  IF b < 10 * sc.div
             THEN MkText(prefix, FALSE, RoundHalfEven(10 * b, sc.div),
                         <<".1", UnitLetter(sc.exp), "iB", word>>)
             ELSE MkText(prefix, FALSE, RoundHalfEven(b, sc.div),
                         <<UnitLetter(sc.exp), "iB", word>>)

\* MemoryProvider.buildText
buildText(m, total, available, used, percentStr) ==
    CASE m.format = "available" -> HumanText(m.prefix, available, "free")
      [] m.format = "used" -> HumanText(m.prefix, used, "used")
      [] OTHER -> WithPrefix(m.prefix, percentStr)

\* MemSampleFail with the timestamp assignment lost.
MemSampleFailNoStamp(m, now) ==
    Outcome([m EXCEPT !.blk = IF m.blk.full_text = EmptyText
                              THEN ErrorBlock("mem", "mem err") ELSE @],
            FALSE, TRUE)

\* MemoryProvider.sample, the read having failed.
MemSampleFail(m, now) ==
    Outcome([m EXCEPT !.blk = IF m.blk.full_text = EmptyText
                              THEN ErrorBlock("mem", "mem err") ELSE @,
                      !.lastSampleNs = now],
            FALSE, TRUE)

\* MemoryProvider.sample, the read having returned r.
MemSampleOk(m, now, r) ==
    LET formattedPercent == formatPercent(r.percent, m.precision)
        text == buildText(m, r.total, r.available, r.used, formattedPercent)
        m1 == [m EXCEPT !.lastSampleNs = now, !.lastPercent = r.percent]
    IN  IF text = m.blk.full_text
        THEN Outcome(m1, FALSE, TRUE)
        ELSE LET sev == SeverityFor(r.percent, m.warnThreshold, m.dangerThreshold)
             IN  Outcome([m1 EXCEPT !.blk = MkBlock("mem", text, ColorFor(sev))],
                         TRUE, TRUE)

\* MemoryProvider.sample
MemSample(m, now, rd) ==
    LET r == readMemInfo(rd)
    IN  IF r.err THEN MemSampleFail(m, now) ELSE MemSampleOk(m, now, r)

\* MemoryProvider.MaybeRefresh
MemMaybeRefresh(m, now, rd) ==
    IF now - m.lastSampleNs < m.intervalNs
    THEN Outcome(m, FALSE, FALSE)
    ELSE MemSample(m, now, rd)

\* strings.ToLower on the format names a configuration can carry.
ToLower(f) ==
    CASE f = "Available" -> "available"
      [] f = "Used" -> "used"
      [] f = "Percent" -> "percent"
      [] OTHER -> f

\* NewMemoryProvider up to its struct literal.
NewMemoryStruct(cfg) ==
    LET mcfg == cfg.Mem
        iv1 == IF mcfg.IntervalSec <= 0 THEN 5 ELSE mcfg.IntervalSec
        iv == IF iv1 > 60 THEN 60 ELSE iv1
        warn == IF mcfg.WarnPercent <= 0 THEN 70 ELSE mcfg.WarnPercent
        danger1 == IF mcfg.DangerPercent <= warn THEN warn + 10 ELSE mcfg.DangerPercent
        danger == IF danger1 > 100 THEN 100 ELSE danger1
        precision == IF mcfg.Precision < 0 \/ mcfg.Precision > 1 THEN 0 ELSE mcfg.Precision
        format0 == ToLower(mcfg.Format)
        format == IF format0 \in {"percent", "available", "used"} THEN format0 ELSE "percent"
        prefix == IF mcfg.Prefix = "" THEN "MEM" ELSE mcfg.Prefix
        mp == [ZeroProvider EXCEPT !.kind = "mem", !.intervalNs = iv * Second,
                                   !.warnThreshold = warn, !.dangerThreshold = danger,
                                   !.precision = precision, !.prefix = prefix,
                                   !.format = format]
    IN  mp

\* NewMemoryProvider: the struct, then an initial sample at time.Now().
NewMemoryProvider(cfg, now, rd) == MemSample(NewMemoryStruct(cfg), now, rd).p

\* ---- clock provider

\* time.Unix(sec, 0).Format(format): the formats a configuration can carry
\* are the default (shows the second), "15:04" (shows the minute) and "".
FormatTime(sec, format) ==
    CASE format = "" -> EmptyText
      [] format = "15:04" -> MkText("", FALSE, sec \div 60, <<"hh:mm">>)
      [] OTHER -> MkText("", FALSE, sec, <<"date hh:mm:ss">>)

\* TimeMaybeRefresh rendering on every call.
TimeMaybeRefreshEveryCall(t, now) ==
    LET sec == now \div Second
    IN  Outcome([t EXCEPT !.lastSec = sec,
                          !.blk = MkBlock("time", FormatTime(sec, t.format), "")],
                TRUE, FALSE)

\* TimeMaybeRefresh with the defensive comparison of the text lost.
TimeMaybeRefreshNoCompare(t, now) ==
    LET sec == now \div Second
        txt == FormatTime(sec, t.format)
    IN  IF sec = t.lastSec
        THEN Outcome(t, FALSE, FALSE)
        ELSE Outcome([t EXCEPT !.lastSec = sec, !.blk = MkBlock("time", txt, "")],
                     TRUE, FALSE)

\* TimeProvider.MaybeRefresh
TimeMaybeRefresh(t, now) ==
    LET sec == now \div Second
        txt == FormatTime(sec, t.format)
    IN  IF sec = t.lastSec
        THEN Outcome(t, FALSE, FALSE)
        ELSE IF t.blk.full_text = txt
        THEN Outcome([t EXCEPT !.lastSec = sec], FALSE, FALSE)
        ELSE Outcome([t EXCEPT !.lastSec = sec, !.blk = MkBlock("time", txt, "")],
                     TRUE, FALSE)

\* NewTimeProvider up to the forced refresh: lastSec one second behind now.
NewTimeStruct(ival, format, now) ==
    [ZeroProvider EXCEPT !.kind = "time", !.intervalNs = ival,
                         !.format = format, !.lastSec = (now \div Second) - 1]

\* NewTimeProvider(interval, format)
NewTimeProvider(ival, format, now) ==
    TimeMaybeRefresh(NewTimeStruct(ival, format, now), now).p

\* ---- the Provider interface

\* Provider.MaybeRefresh, dispatched on the concrete type; rd is what the
\* provider's data source returns if it is read.
MaybeRefresh(p, now, rd) ==
    CASE p.kind = "cpu" -> CpuMaybeRefresh(p, now, rd)
      [] p.kind = "mem" -> MemMaybeRefresh(p, now, rd)
      [] OTHER -> TimeMaybeRefresh(p, now)

\* Provider.Current
Current(p) == p.blk

\* The reads a provider's data source can return.
ReadsOf(kind) ==
    CASE kind = "cpu" -> ProcStatReads
      [] kind = "mem" -> MemInfoReads
      [] OTHER -> {ProcStatErr}

\* Whether a read returning rd counts as failed for a provider of this kind.
ReadFailed(kind, rd) ==
    CASE kind = "cpu" -> rd.err
      [] kind = "mem" -> readMemInfo(rd).err
      [] OTHER -> FALSE

\* The struct a constructor starts from, and the provider it returns.
StructOf(kind, cfg, now) ==
    CASE kind = "cpu" -> NewCpuStruct(cfg)
      [] kind = "mem" -> NewMemoryStruct(cfg)
      [] OTHER -> NewTimeStruct(Second, cfg.Time.Format, now)

\* The constructor's forced first sample (the clock's is a MaybeRefresh).
FirstSample(kind, cfg, now, rd) ==
    CASE kind = "cpu" -> CpuSample(NewCpuStruct(cfg), now, rd)
      [] kind = "mem" -> MemSample(NewMemoryStruct(cfg), now, rd)
      [] OTHER -> TimeMaybeRefresh(NewTimeStruct(Second, cfg.Time.Format, now), now)

Kinds == {"time", "cpu", "mem"}

\* ------------------------------------------------------------------ registry and builder

\* Register appending the name to the order on every call.
RegisterAlwaysAppend(r, spec) ==
    [reg |-> [n \in DOMAIN r.reg \cup {spec.Name} |->
                 IF n = spec.Name THEN spec ELSE r.reg[n]],
     regOrder |-> Append(r.regOrder, spec.Name)]

\* Register(spec) on the registry [reg, regOrder]: a new name is appended to
\* the order; the stored spec is overwritten either way.
Register(r, spec) ==
    [reg |-> [n \in DOMAIN r.reg \cup {spec.Name} |->
                 IF n = spec.Name THEN spec ELSE r.reg[n]],
     regOrder |-> IF spec.Name \in DOMAIN r.reg
                  THEN r.regOrder ELSE Append(r.regOrder, spec.Name)]

EmptyRegistry == [reg |-> << >>, regOrder |-> << >>]

\* The registrations done at package initialisation: one spec per provider
\* kind, enabled by its module's Enabled flag and built by its constructor.
Registrations ==
    << [Name |-> "time", Enable |-> "Time"],
       [Name |-> "cpu",  Enable |-> "CPU"],
       [Name |-> "mem",  Enable |-> "Mem"] >>

RECURSIVE RegisterAll(_, _)
RegisterAll(r, specs) ==
    IF specs = << >> THEN r
    ELSE RegisterAll(Register(r, Head(specs)), Tail(specs))

\* The registry after initialisation.
Registry == RegisterAll(EmptyRegistry, Registrations)

\* BuildProviders' test of the enablement predicate: a spec with no
\* predicate (Enable == nil) counts as enabled.
EnableOf(spec, cfg) == spec.Enable = "nil" \/ cfg[spec.Enable].Enabled

\* spec.Build(cfg) at instant now, the data source returning rd.
BuildOf(spec, cfg, now, rd) == FirstSample(spec.Name, cfg, now, rd).p

\* cfg.ModuleOrder()
ModuleOrder(cfg) == cfg.moduleOrder

\* appendIf building also a spec whose predicate is false.
RECURSIVE AppendEachIgnoringEnable(_, _, _, _, _, _)
AppendEachIgnoringEnable(r, names, provs, cfg, now, rds) ==
    IF names = << >> THEN provs
    ELSE LET name == Head(names)
         IN  AppendEachIgnoringEnable(r, Tail(names),
                        IF name \in DOMAIN r.reg
                        THEN Append(provs, BuildOf(r.reg[name], cfg, now, rds[name]))
                        ELSE provs,
                        cfg, now, rds)

\* BuildProviders' closure appendIf applied to each name of a list in turn,
\* on the registry r: unknown names and disabled specs contribute nothing.
RECURSIVE AppendEachFrom(_, _, _, _, _, _)
AppendEachFrom(r, names, provs, cfg, now, rds) ==
    IF names = << >> THEN provs
    ELSE LET name == Head(names)
             ok == /\ name \in DOMAIN r.reg
                   /\ EnableOf(r.reg[name], cfg)
         IN  AppendEachFrom(r, Tail(names),
                        IF ok
                        THEN Append(provs, BuildOf(r.reg[name], cfg, now, rds[name]))
                        ELSE provs,
                        cfg, now, rds)

\* BuildProviders going on, after the declared order, to the registered
\* names the order does not mention.
BuildProvidersThenRest(r, cfg, now, rds) ==
    LET order == ModuleOrder(cfg)
        mentioned == {order[i] : i \in 1..Len(order)}
        rest == SelectSeq(r.regOrder, LAMBDA n : n \notin mentioned)
    IN  AppendEachFrom(r, order \o rest, << >>, cfg, now, rds)

\* BuildProviders building nothing when no order is declared.
BuildProvidersOrderOnly(r, cfg, now, rds) ==
    AppendEachFrom(r, ModuleOrder(cfg), << >>, cfg, now, rds)

\* BuildProviders(cfg) on the registry r: the declared order if there is
\* one, else the registration order.
BuildProvidersFrom(r, cfg, now, rds) ==
    LET order == ModuleOrder(cfg)
    IN  IF Len(order) > 0
        THEN AppendEachFrom(r, order, << >>, cfg, now, rds)
        ELSE AppendEachFrom(r, r.regOrder, << >>, cfg, now, rds)

\* appendIf on the registry the program runs with.
AppendEach(names, provs, cfg, now, rds) ==
    AppendEachFrom(Registry, names, provs, cfg, now, rds)

\* BuildProviders(cfg) on the registry the program runs with.
BuildProviders(cfg, now, rds) == BuildProvidersFrom(Registry, cfg, now, rds)

\* ------------------------------------------------------------------ SpecProvider

NoOp == [op |-> "none", now |-> 0, pre |-> ZeroProvider, changed |-> FALSE,
         read |-> FALSE, failed |-> FALSE, firstOk |-> FALSE,
         prevAttempt |-> -1, prevCallAt |-> -1, prevCallRead |-> FALSE]

gvars == <<registry, regLog, lastBuild, sevCase, ctorCase>>
ovars == <<prov, built, last, attemptAt, everOk>>
pvars == <<prov, built, last, attemptAt, everOk, registry, regLog, lastBuild, sevCase, ctorCase>>
mlocal == <<pc, hasPath, interval, next, current, outq, tick, lastRender>>
shared == <<stdout, stderr, lists, published, clickCh>>
rvars == <<nread, delivered, input>>
wvars == <<wOn, wLast, wPending, wEvents>>
mvars == <<pc, hasPath, interval, next, current, outq, tick, lastRender,
           stdout, stderr, lists, published, clickCh,
           nread, delivered, input, wOn, wLast, wPending, wEvents>>
vars == <<prov, built, last, attemptAt, everOk, clock,
          pc, hasPath, interval, next, current, outq, tick, lastRender,
          stdout, stderr, lists, published, clickCh,
          nread, delivered, input, wOn, wLast, wPending, wEvents,
          registry, regLog, lastBuild, sevCase, ctorCase>>

\* The kinds of record the program logs.
LogKinds == {"config", "click parse", "click", "config reload failed",
             "config reloaded", "config watcher error", "config watcher init"}

NoRender == [tick |-> 0, list |-> 0, before |-> << >>, after |-> << >>,
             changed |-> {}, batch |-> << >>, wrote |-> FALSE]

NoBuild == [order |-> << >>, enabled |-> {}, reg |-> EmptyRegistry, out |-> << >>,
            called |-> FALSE]

NoSeverity == [p |-> RatZero, q |-> RatZero, warn |-> 0, danger |-> 0,
               sevP |-> "", sevQ |-> "", colorP |-> "", done |-> FALSE]

NoCtor == [kind |-> "", iv |-> 0, warn |-> 0, danger |-> 0, p |-> ZeroProvider,
           done |-> FALSE]

\* The registry once package initialisation has made its registrations.
RegistryReady ==
    /\ registry = Registry
    /\ regLog = Registrations
    /\ lastBuild = NoBuild
    /\ sevCase = NoSeverity
    /\ ctorCase = NoCtor

\* The program's variables before main runs (SpecProvider leaves them so).
MainIdle ==
    /\ pc = "boot"
    /\ hasPath = FALSE
    /\ interval = 0
    /\ next = 0
    /\ current = 0
    /\ outq = << >>
    /\ tick = 0
    /\ lastRender = NoRender
    /\ stdout = << >>
    /\ stderr = [k \in LogKinds |-> 0]
    /\ lists = << >>
    /\ published = 0
    /\ clickCh = << >>
    /\ nread = 0
    /\ delivered = << >>
    /\ input = << >>
    /\ wOn = FALSE
    /\ wLast = -1
    /\ wPending = FALSE
    /\ wEvents = 0

PInit ==
    /\ prov = ZeroProvider
    /\ built = FALSE
    /\ clock \in {0, 1}
    /\ last = NoOp
    /\ attemptAt = -1
    /\ everOk = FALSE
    /\ RegistryReady
    /\ MainIdle

\* The bookkeeping every operation on prov does: o is the outcome of the
\* call made at instant now with the source returning rd.
Record(op, pre, now, rd, o) ==
    LET failed == o.read /\ ReadFailed(pre.kind, rd)
        ok == o.read /\ ~failed
    IN  /\ prov' = o.p
        /\ clock' = now
        /\ attemptAt' = IF o.read THEN now ELSE attemptAt
        /\ everOk' = (everOk \/ ok)
        /\ last' = [op |-> op, now |-> now, pre |-> pre, changed |-> o.changed,
                    read |-> o.read, failed |-> failed, firstOk |-> ok /\ ~everOk,
                    prevAttempt |-> attemptAt,
                    prevCallAt |-> IF last.op = "refresh" THEN last.now ELSE -1,
                    prevCallRead |-> last.op = "refresh" /\ last.read]

\* New*Provider(cfg) at time.Now() = clock.
Construct ==
    /\ ~built
    /\ \E kind \in Kinds, cfg \in ProviderConfigs :
         \E rd \in ReadsOf(kind) :
            Record("construct", StructOf(kind, cfg, clock), clock, rd,
                   FirstSample(kind, cfg, clock, rd))
    /\ built' = TRUE
    /\ UNCHANGED <<mvars, gvars>>

\* p.MaybeRefresh(now) at some later instant.
Refresh ==
    /\ built
    /\ \E now \in clock..MaxTime :
         \E rd \in ReadsOf(prov.kind) :
            Record("refresh", prov, now, rd, MaybeRefresh(prov, now, rd))
    /\ UNCHANGED <<built>>
    /\ UNCHANGED <<mvars, gvars>>

PNext == Construct \/ Refresh

SpecProvider == PInit /\ [][PNext]_vars

\* ------------------------------------------------------------------ configuration loading

\* clampInt(val, min, max, fallback)
clampInt(val, min, max, fallback) ==
    LET v == IF val = 0 /\ fallback # 0 THEN fallback ELSE val
    IN  IF v < min THEN min ELSE IF v > max THEN max ELSE v

\* validMemFormat
validMemFormat(f) == f \in {"percent", "available", "used"}

\* Config.normalize: normalizeTick, normalizeCPU, normalizeMem.
normalize(c) ==
    [c EXCEPT !.TickHz = clampInt(@, 1, 20, 1),
              !.CPU.IntervalSec = IF @ <= 0 THEN 2 ELSE @,
              !.CPU.Precision = clampInt(@, 0, 1, 0),
              !.Mem.IntervalSec = IF @ <= 0 THEN 5 ELSE @,
              !.Mem.Precision = clampInt(@, 0, 1, 0),
              !.Mem.Format = IF @ = "" \/ ~validMemFormat(@) THEN "percent" ELSE @]

\* What a configuration file decodes to, overlaid on the defaults, with the
\* order of its [modules.<name>] tables; bad marks a file that cannot be
\* read or parsed.
FileOf(c) == [bad |-> FALSE, cfg |-> c]
BadFile == [bad |-> TRUE, cfg |-> Defaults]

ConfigFiles ==
    { FileOf([Defaults EXCEPT !.TickHz = 1,
                !.moduleOrder = <<"time", "cpu", "mem">>,
                !.Time.Format = "15:04",
                !.CPU.IntervalSec = 1, !.Mem.IntervalSec = 1]),
      FileOf([Defaults EXCEPT !.TickHz = 0,
                !.moduleOrder = <<"cpu", "net">>,
                !.CPU.IntervalSec = 0, !.CPU.Precision = 1]),
      FileOf([Defaults EXCEPT !.TickHz = 2,
                !.moduleOrder = <<"time">>,
                !.Time.Enabled = FALSE]) }

\* config.Load of a path that names the file f.
LoadFile(f) ==
    IF f.bad THEN [cfg |-> Defaults, err |-> TRUE]
    ELSE [cfg |-> normalize(f.cfg), err |-> FALSE]

\* config.Load("") when no file is found on the search paths.
LoadNone == [cfg |-> Defaults, err |-> TRUE]

\* What the data sources return while the program runs: both unreadable, or
\* readable with one of two successive snapshots of the cpu counters.
MainReads ==
    { [time |-> ProcStatErr, cpu |-> ProcStatErr, mem |-> MemInfoErr] }
    \cup
    { [time |-> ProcStatErr,
       cpu |-> [ProcStatErr EXCEPT !.err = FALSE, !.user = u, !.idle = 1],
       mem |-> [MemInfoErr EXCEPT !.err = FALSE, !.memTotal = 4,
                                  !.haveAvailable = TRUE, !.memAvailable = 1]]
        : u \in {1, 2} }

\* ------------------------------------------------------------------ output streams

\* The log package left writing to the primary output.
LogStreamStdout == "stdout"

\* log.SetOutput(os.Stderr): where the log package writes.
LogStream == "stderr"

\* One write to the primary output: who wrote it, what, and for a tick's
\* writes the tick and the number of elements of the array.
Chunk(who, what, t, n) == [w |-> who, s |-> what, tick |-> t, n |-> n]

\* log.Printf by `who`, once for each kind of kinds in turn.
RECURSIVE Bump(_, _)
Bump(counts, kinds) ==
    IF kinds = << >> THEN counts
    ELSE Bump([counts EXCEPT ![Head(kinds)] = @ + 1], Tail(kinds))

Logs(who, kinds) ==
    IF LogStream = "stderr"
    THEN /\ stderr' = Bump(stderr, kinds)
         /\ UNCHANGED stdout
    ELSE /\ stdout' = stdout \o [i \in 1..Len(kinds) |-> Chunk(who, kinds[i], 0, 0)]
         /\ UNCHANGED stderr

\* The three Println calls of main's startup.
StartupWrites ==
    << Chunk("main", "header", 0, 0),
       Chunk("main", "[", 0, 0),
       Chunk("main", "[]", 0, 0) >>

\* renderOnce's writes with the Print(",") lost.
RowWritesNoComma(t, blocksOut) == << [w |-> "main", s |-> "array", tick |-> t,
                                      n |-> Len(blocksOut)] >>

\* renderOnce's two writes: Print(",") and Println of the encoded array.
RowWrites(t, blocksOut) ==
    << Chunk("main", ",", t, 0),
       Chunk("main", "array", t, Len(blocksOut)) >>

\* ------------------------------------------------------------------ renderOnce

\* RenderStep collecting the block only of a provider that changed.
RenderStepOnlyChanged(acc, p, now, rd) ==
    LET o == MaybeRefresh(p, now, rd)
    IN  [ps |-> Append(acc.ps, o.p),
         changed |-> IF o.changed THEN acc.changed \cup {Len(acc.ps) + 1}
                     ELSE acc.changed,
         blocksOut |-> IF o.changed THEN Append(acc.blocksOut, Current(o.p))
                       ELSE acc.blocksOut]

\* One iteration of renderOnce's loop over the providers.
RenderStep(acc, p, now, rd) ==
    LET o == MaybeRefresh(p, now, rd)
    IN  [ps |-> Append(acc.ps, o.p),
         changed |-> IF o.changed THEN acc.changed \cup {Len(acc.ps) + 1}
                     ELSE acc.changed,
         blocksOut |-> Append(acc.blocksOut, Current(o.p))]

RECURSIVE RenderLoop(_, _, _, _)
RenderLoop(acc, rest, now, rds) ==
    IF rest = << >> THEN acc
    ELSE RenderLoop(RenderStep(acc, Head(rest), now, rds[Head(rest).kind]),
                    Tail(rest), now, rds)

\* The early return taken whenever nothing changed.
ShouldSkipUnchanged(changed, blocksOut) == ~changed

\* The early return never taken.
ShouldSkipNever(changed, blocksOut) == FALSE

\* renderOnce's early return: nothing changed and there is no block.
ShouldSkip(changed, blocksOut) == ~changed /\ Len(blocksOut) = 0

\* renderOnce(buf, ps) at instant now: the providers afterwards, the indices
\* that reported changed, the blocks collected and the writes made.
\* (Encoding a []Block cannot fail, so the encode-error return is never taken.)
renderOnce(ps, now, rds, t) ==
    LET r == RenderLoop([ps |-> << >>, changed |-> {}, blocksOut |-> << >>],
                        ps, now, rds)
    IN  [ps |-> r.ps, changed |-> r.changed, blocksOut |-> r.blocksOut,
         writes |-> IF ShouldSkip(r.changed # {}, r.blocksOut)
                    THEN << >> ELSE RowWrites(t, r.blocksOut)]

\* ------------------------------------------------------------------ Spec: main

\* time.Truncate(d)
Truncate(t, d) == IF d <= 0 THEN t ELSE t - (t % d)

\* waitUntilNextTickInterval's target.
NextBoundary(now, iv) ==
    LET n == Truncate(now, iv) + iv
    IN  IF ~(n > now) THEN n + iv ELSE n

\* main's tick interval from the configured rate.
TickInterval(cfg) ==
    LET hz == IF cfg.TickHz < 1 THEN 1 ELSE IF cfg.TickHz > 20 THEN 20 ELSE cfg.TickHz
    IN  Second \div hz

Init ==
    /\ prov = ZeroProvider
    /\ built = FALSE
    /\ last = NoOp
    /\ attemptAt = -1
    /\ everOk = FALSE
    /\ clock = 0
    /\ RegistryReady
    /\ MainIdle

\* main up to the header: load the configuration, build and store the
\* provider list, queue the three startup lines.
Boot ==
    /\ pc = "boot"
    /\ \E ld \in {LoadNone} \cup {LoadFile(f) : f \in ConfigFiles}, rds \in MainReads :
          /\ IF ld.err THEN Logs("main", <<"config">>)
                       ELSE UNCHANGED <<stdout, stderr>>
          /\ lists' = << BuildProviders(ld.cfg, clock, rds) >>
          /\ published' = 1
          /\ hasPath' = ~ld.err
          /\ interval' = TickInterval(ld.cfg)
    /\ outq' = StartupWrites
    /\ pc' = "startup"
    /\ UNCHANGED <<next, current, tick, lastRender, clickCh, clock>>
    /\ UNCHANGED <<pvars, rvars, wvars>>

\* One write of main to the primary output.
MainWrite ==
    /\ pc \in {"startup", "emit"}
    /\ outq # << >>
    /\ stdout' = Append(stdout, Head(outq))
    /\ outq' = Tail(outq)
    /\ pc' = IF Tail(outq) # << >> THEN pc
             ELSE IF pc = "startup" THEN "align" ELSE "wait"
    /\ UNCHANGED <<hasPath, interval, next, current, tick, lastRender,
                   stderr, lists, published, clickCh, clock>>
    /\ UNCHANGED <<pvars, rvars, wvars>>

\* waitUntilNextTickInterval: entry (both the initial alignment and the
\* inter-tick wait).
WaitEnter ==
    /\ pc \in {"align", "wait"}
    /\ next' = NextBoundary(clock, interval)
    /\ pc' = IF pc = "align" THEN "alignloop" ELSE "waitloop"
    /\ UNCHANGED <<hasPath, interval, current, outq, tick, lastRender, clock>>
    /\ UNCHANGED <<shared, pvars, rvars, wvars>>

\* waitUntilNextTickInterval: one pass of the loop up to the end of the sleep.
WaitLoop ==
    /\ pc \in {"alignloop", "waitloop"}
    /\ LET dur == next - clock
           step == IF dur > SleepCap THEN SleepCap ELSE dur
       IN  IF dur <= 0
           THEN /\ pc' = IF pc = "alignloop" THEN "watch" ELSE "drain"
                /\ UNCHANGED clock
           ELSE /\ clock + step <= MaxClock
                /\ clock' = clock + step
                /\ pc' = IF pc = "alignloop" THEN "alignloop" ELSE "waitclick"
    /\ UNCHANGED <<hasPath, interval, next, current, outq, tick, lastRender>>
    /\ UNCHANGED <<shared, pvars, rvars, wvars>>

\* handleClick(ev): log it.
HandleClick(ev) ==
    /\ Logs("click", <<"click">>)
    /\ delivered' = Append(delivered, ev)

\* The receive after the sleep taking the newest queued click.
WaitClickNewest ==
    /\ pc = "waitclick"
    /\ IF clickCh # << >>
       THEN /\ HandleClick(clickCh[Len(clickCh)])
            /\ clickCh' = SubSeq(clickCh, 1, Len(clickCh) - 1)
       ELSE UNCHANGED <<clickCh, delivered, stdout, stderr>>
    /\ pc' = "waitloop"
    /\ UNCHANGED <<hasPath, interval, next, current, outq, tick, lastRender,
                   lists, published, clock, nread, input>>
    /\ UNCHANGED <<pvars, wvars>>

\* The receive after the sleep computing the target again once a click has
\* been handled.
WaitClickRetargets ==
    /\ pc = "waitclick"
    /\ IF clickCh # << >>
       THEN /\ HandleClick(Head(clickCh))
            /\ clickCh' = Tail(clickCh)
            /\ next' = NextBoundary(clock, interval)
       ELSE UNCHANGED <<clickCh, delivered, stdout, stderr, next>>
    /\ pc' = "waitloop"
    /\ UNCHANGED <<hasPath, interval, current, outq, tick, lastRender,
                   lists, published, clock, nread, input>>
    /\ UNCHANGED <<pvars, wvars>>

\* waitUntilNextTickInterval: the non-blocking receive after the sleep.
WaitClick ==
    /\ pc = "waitclick"
    /\ IF clickCh # << >>
       THEN /\ HandleClick(Head(clickCh))
            /\ clickCh' = Tail(clickCh)
       ELSE UNCHANGED <<clickCh, delivered, stdout, stderr>>
    /\ pc' = "waitloop"
    /\ UNCHANGED <<hasPath, interval, next, current, outq, tick, lastRender,
                   lists, published, clock, nread, input>>
    /\ UNCHANGED <<pvars, wvars>>

\* startConfigWatcher, when the configuration came from a file: the watcher
\* goroutine starts, or initialisation fails and is logged.
StartWatcher ==
    /\ pc = "watch"
    /\ IF hasPath
       THEN \/ /\ wOn' = TRUE
               /\ UNCHANGED <<stdout, stderr>>
            \/ /\ Logs("main", <<"config watcher init">>)
               /\ UNCHANGED wOn
       ELSE UNCHANGED <<wOn, stdout, stderr>>
    /\ pc' = "drain"
    /\ UNCHANGED <<hasPath, interval, next, current, outq, tick, lastRender,
                   lists, published, clickCh, clock, wLast, wPending, wEvents>>
    /\ UNCHANGED <<pvars, rvars>>

\* drainClicks: one pass of its loop.
Drain ==
    /\ pc = "drain"
    /\ IF clickCh # << >>
       THEN /\ HandleClick(Head(clickCh))
            /\ clickCh' = Tail(clickCh)
            /\ pc' = "drain"
       ELSE /\ pc' = "load"
            /\ UNCHANGED <<clickCh, delivered, stdout, stderr>>
    /\ UNCHANGED <<hasPath, interval, next, current, outq, tick, lastRender,
                   lists, published, clock, nread, input>>
    /\ UNCHANGED <<pvars, wvars>>

\* current := providers.Load()
LoadList ==
    /\ pc = "load"
    /\ current' = published
    /\ pc' = "render"
    /\ UNCHANGED <<hasPath, interval, next, outq, tick, lastRender, clock>>
    /\ UNCHANGED <<shared, pvars, rvars, wvars>>

\* renderOnce(buf, current) up to its writes.
Render ==
    /\ pc = "render"
    /\ tick < MaxTicks
    /\ \E rds \in MainReads :
         LET r == renderOnce(lists[current], clock, rds, tick + 1)
         IN  /\ lists' = [lists EXCEPT ![current] = r.ps]
             /\ outq' = r.writes
             /\ pc' = IF r.writes = << >> THEN "wait" ELSE "emit"
             /\ lastRender' = [tick |-> tick + 1, list |-> current,
                               before |-> lists[current], after |-> r.ps,
                               changed |-> r.changed, batch |-> r.blocksOut,
                               wrote |-> r.writes # << >>]
    /\ tick' = tick + 1
    /\ UNCHANGED <<hasPath, interval, next, current, stdout, stderr,
                   published, clickCh, clock>>
    /\ UNCHANGED <<pvars, rvars, wvars>>

Main ==
    \/ Boot \/ MainWrite \/ WaitEnter \/ WaitLoop \/ WaitClick
    \/ StartWatcher \/ Drain \/ LoadList \/ Render

\* ------------------------------------------------------------------ Spec: click reader

\* clicks.Read going on to the send after a line that failed to parse.
ReadLineSendsMalformed ==
    /\ pc \notin {"boot", "startup"}
    /\ nread < MaxLines
    /\ nread' = nread + 1
    /\ \/ /\ Logs("reader", <<"click parse">>)
          /\ input' = Append(input, "malformed")
          /\ clickCh' = IF Len(clickCh) < ClickCap
                        THEN Append(clickCh, nread + 1) ELSE clickCh
       \/ /\ clickCh' = IF Len(clickCh) < ClickCap
                        THEN Append(clickCh, nread + 1) ELSE clickCh
          /\ input' = Append(input, "click")
          /\ UNCHANGED <<stdout, stderr>>
    /\ UNCHANGED <<delivered, lists, published, clock>>
    /\ UNCHANGED <<mlocal, pvars, wvars>>

\* clicks.Read sending with a blocking-free append that ignores the capacity.
ReadLineUnbounded ==
    /\ pc \notin {"boot", "startup"}
    /\ nread < MaxLines
    /\ nread' = nread + 1
    /\ \/ /\ Logs("reader", <<"click parse">>)
          /\ input' = Append(input, "malformed")
          /\ UNCHANGED clickCh
       \/ /\ clickCh' = Append(clickCh, nread + 1)
          /\ input' = Append(input, "click")
          /\ UNCHANGED <<stdout, stderr>>
    /\ UNCHANGED <<delivered, lists, published, clock>>
    /\ UNCHANGED <<mlocal, pvars, wvars>>

\* clicks.Read: one pass of the scan loop. The line is malformed (logged,
\* skipped) or a click, which is sent if the channel has room and dropped
\* otherwise. Clicks are numbered by their line.
ReadLine ==
    /\ pc \notin {"boot", "startup"}
    /\ nread < MaxLines
    /\ nread' = nread + 1
    /\ \/ /\ Logs("reader", <<"click parse">>)
          /\ input' = Append(input, "malformed")
          /\ UNCHANGED clickCh
       \/ /\ clickCh' = IF Len(clickCh) < ClickCap
                        THEN Append(clickCh, nread + 1) ELSE clickCh
          /\ input' = Append(input, "click")
          /\ UNCHANGED <<stdout, stderr>>
    /\ UNCHANGED <<delivered, lists, published, clock>>
    /\ UNCHANGED <<mlocal, pvars, wvars>>

Reader == ReadLine

\* ------------------------------------------------------------------ Spec: config watcher

\* time.Since(last) >= 150ms (last = -1 is the zero time, long ago).
SinceAtLeast(now, lastT, d) == lastT = -1 \/ now - lastT >= d

\* The reload callback storing the list before its last provider is built.
ReloadPartial(f, now, rds) ==
    LET ld == LoadFile(f)
        ps == BuildProviders(ld.cfg, now, rds)
    IN  IF ld.err
        THEN [lists |-> lists, published |-> published,
              logs |-> <<"config reload failed">>]
        ELSE [lists |-> Append(lists, SubSeq(ps, 1, Len(ps) - 1)),
              published |-> Len(lists) + 1,
              logs |-> <<"config reloaded">>]

\* The reload callback going on to build and store after a failed load, with
\* the defaults Load returns beside its error.
ReloadStoresOnError(f, now, rds) ==
    LET ld == LoadFile(f)
    IN  [lists |-> Append(lists, BuildProviders(ld.cfg, now, rds)),
         published |-> Len(lists) + 1,
         logs |-> IF ld.err THEN <<"config reload failed">>
                  ELSE <<"config reloaded">>]

\* The reload callback cb: load the file as it is now; on success build the
\* providers and store the list. Yields the new heap, the stored index and
\* the records logged.
Reload(f, now, rds) ==
    LET ld == LoadFile(f)
    IN  IF ld.err
        THEN [lists |-> lists, published |-> published,
              logs |-> <<"config reload failed">>]
        ELSE [lists |-> Append(lists, BuildProviders(ld.cfg, now, rds)),
              published |-> Len(lists) + 1,
              logs |-> <<"config reloaded">>]

\* The watcher goroutine: an event for another file of the directory.
WatchOtherWithin(n) ==
    /\ wOn /\ wEvents < n
    /\ wEvents' = wEvents + 1
    /\ UNCHANGED <<wOn, wLast, wPending, clock>>
    /\ UNCHANGED <<shared, mlocal, pvars, rvars>>

\* WatchEventWithin with the callback also recomputing main's tick interval
\* from the configuration it loaded.
WatchEventRetunesWithin(n) ==
    /\ wOn /\ wEvents < n
    /\ wEvents' = wEvents + 1
    /\ IF ~SinceAtLeast(clock, wLast, Debounce)
       THEN /\ wPending' = TRUE
            /\ UNCHANGED <<wLast, stdout, stderr, lists, published, interval>>
       ELSE \E f \in ConfigFiles \cup {BadFile}, rds \in MainReads :
              LET r1 == Reload(f, clock, rds)
              IN  /\ wLast' = clock
                  /\ lists' = r1.lists
                  /\ published' = r1.published
                  /\ interval' = TickInterval(LoadFile(f).cfg)
                  /\ Logs("watcher", r1.logs)
                  /\ UNCHANGED wPending
    /\ UNCHANGED <<wOn, clickCh, clock>>
    /\ UNCHANGED <<pc, hasPath, next, current, outq, tick, lastRender>>
    /\ UNCHANGED <<pvars, rvars>>

\* The watcher goroutine: an event for the configuration file. Within the
\* debounce window it only sets pending; otherwise the callback runs. (The
\* check after the select then finds time.Since(last) below the window:
\* the callback's own duration is not modelled.)
WatchEventWithin(n) ==
    /\ wOn /\ wEvents < n
    /\ wEvents' = wEvents + 1
    /\ IF ~SinceAtLeast(clock, wLast, Debounce)
       THEN /\ wPending' = TRUE
            /\ UNCHANGED <<wLast, stdout, stderr, lists, published>>
       ELSE \E f \in ConfigFiles \cup {BadFile}, rds \in MainReads :
              LET r1 == Reload(f, clock, rds)
              IN  /\ wLast' = clock
                  /\ lists' = r1.lists
                  /\ published' = r1.published
                  /\ Logs("watcher", r1.logs)
                  /\ UNCHANGED wPending
    /\ UNCHANGED <<wOn, clickCh, clock>>
    /\ UNCHANGED <<mlocal, pvars, rvars>>

\* The watcher goroutine: an error from the watcher. It is logged, and the
\* check after the select runs a pending reload whose window has passed.
WatchErrorWithin(n) ==
    /\ wOn /\ wEvents < n
    /\ wEvents' = wEvents + 1
    /\ IF wPending /\ SinceAtLeast(clock, wLast, Debounce)
       THEN \E f \in ConfigFiles \cup {BadFile}, rds \in MainReads :
              LET r1 == Reload(f, clock, rds)
              IN  /\ wPending' = FALSE
                  /\ wLast' = clock
                  /\ lists' = r1.lists
                  /\ published' = r1.published
                  /\ Logs("watcher", <<"config watcher error">> \o r1.logs)
       ELSE /\ Logs("watcher", <<"config watcher error">>)
            /\ UNCHANGED <<wLast, wPending, lists, published>>
    /\ UNCHANGED <<wOn, clickCh, clock>>
    /\ UNCHANGED <<mlocal, pvars, rvars>>

\* The three cases of the watcher's select, for the events of one run.
WatchOther == WatchOtherWithin(MaxEvents)
WatchEvent == WatchEventWithin(MaxEvents)
WatchError == WatchErrorWithin(MaxEvents)

Watcher == WatchOther \/ WatchEvent \/ WatchError

Next == Main \/ Reader \/ Watcher

Spec == Init /\ [][Next]_vars

\* The program with its goroutines scheduled: main and the reader each take
\* their next step whenever they can (a sleep ends, a scan returns). Boot
\* and Render are the only steps possible at their positions of main and
\* are enabled there (Render until the bound on ticks), so their weak
\* fairness is stated on the position.
FairSpec ==
    /\ Spec
    /\ WF_vars(ReadLine)
    /\ WF_vars(MainWrite) /\ WF_vars(WaitEnter) /\ WF_vars(WaitLoop)
    /\ WF_vars(WaitClick) /\ WF_vars(StartWatcher) /\ WF_vars(Drain)
    /\ WF_vars(LoadList)
    /\ []<>(pc # "boot")
    /\ []<>(~(pc = "render" /\ tick < MaxTicks))

\* ------------------------------------------------------------------ SpecRegistry

\* The specs Register is called with: a provider kind's name with its
\* module's Enabled flag as the predicate, and one with no predicate.
RegSpecs ==
    { [Name |-> "time", Enable |-> "Time"],
      [Name |-> "cpu",  Enable |-> "CPU"], [Name |-> "cpu", Enable |-> "nil"],
      [Name |-> "mem",  Enable |-> "Mem"] }

\* The module orders config.Load hands to BuildProviders (Load keeps the
\* first occurrence of a table name, so an order has no name twice).
BuildOrders ==
    { << >>, <<"mem", "time">>, <<"cpu", "net">>, <<"net">>,
      <<"time", "cpu", "mem">> }

\* The sets of modules a configuration enables.
BuildEnabled == { {"Time", "CPU", "Mem"}, {"CPU", "Mem"}, {"Time"} }

\* The configuration with the module order o and the modules of e enabled.
BuildConfig(o, e) ==
    [Defaults EXCEPT !.moduleOrder = o,
                     !.Time.Enabled = "Time" \in e,
                     !.CPU.Enabled = "CPU" \in e,
                     !.Mem.Enabled = "Mem" \in e]

\* The package before any registration.
RInit ==
    /\ registry = EmptyRegistry
    /\ regLog = << >>
    /\ lastBuild = NoBuild
    /\ sevCase = NoSeverity
    /\ ctorCase = NoCtor
    /\ prov = ZeroProvider
    /\ built = FALSE
    /\ last = NoOp
    /\ attemptAt = -1
    /\ everOk = FALSE
    /\ clock = 0
    /\ MainIdle

\* Register(spec)
RegisterSpec ==
    /\ Len(regLog) < MaxRegs
    /\ \E spec \in RegSpecs :
         /\ registry' = Register(registry, spec)
         /\ regLog' = Append(regLog, spec)
    /\ UNCHANGED <<lastBuild, sevCase, ctorCase, ovars, clock, mvars>>

\* BuildProviders(cfg)
Build ==
    /\ \E o \in BuildOrders, e \in BuildEnabled, rds \in MainReads :
         lastBuild' = [order |-> o, enabled |-> e, reg |-> registry,
                       out |-> BuildProvidersFrom(registry, BuildConfig(o, e),
                                                  clock, rds),
                       called |-> TRUE]
    /\ UNCHANGED <<registry, regLog, sevCase, ctorCase, ovars, clock, mvars>>

RNext == RegisterSpec \/ Build

SpecRegistry == RInit /\ [][RNext]_vars

\* ------------------------------------------------------------------ SpecSeverity

\* Sampled percents: whole and fractional values at, just below and away
\* from the thresholds.
Percents ==
    { Rat(0, 1), Rat(79, 2), Rat(40, 1), Rat(499, 10), Rat(50, 1), Rat(70, 1),
      Rat(179, 2), Rat(90, 1), Rat(100, 1) }

\* Pairs of thresholds <<warn, danger>> a provider can hold: apart, adjacent
\* values, equal, and inverted (a warn above 100 leaves danger clamped below it).
ThresholdPairs == { <<70, 90>>, <<40, 50>>, <<50, 50>>, <<120, 100>> }

\* Two sampled percents and the thresholds of the provider, nothing
\* classified yet.
SInit ==
    /\ \E p \in Percents, q \in Percents, t \in ThresholdPairs :
         sevCase = [NoSeverity EXCEPT !.p = p, !.q = q, !.warn = t[1],
                                      !.danger = t[2]]
    /\ ctorCase = NoCtor
    /\ registry = Registry
    /\ regLog = Registrations
    /\ lastBuild = NoBuild
    /\ prov = ZeroProvider
    /\ built = FALSE
    /\ last = NoOp
    /\ attemptAt = -1
    /\ everOk = FALSE
    /\ clock = 0
    /\ MainIdle

\* The severity selection of sample and theme.ColorFor, applied to both
\* percents.
Classify ==
    /\ ~sevCase.done
    /\ sevCase' = [sevCase EXCEPT
                     !.sevP = SeverityFor(sevCase.p, sevCase.warn, sevCase.danger),
                     !.sevQ = SeverityFor(sevCase.q, sevCase.warn, sevCase.danger),
                     !.colorP = ColorFor(SeverityFor(sevCase.p, sevCase.warn,
                                                     sevCase.danger)),
                     !.done = TRUE]
    /\ UNCHANGED <<registry, regLog, lastBuild, ctorCase, ovars, clock, mvars>>

SNext == Classify

SpecSeverity == SInit /\ [][SNext]_vars

\* ------------------------------------------------------------------ SpecConstructor

\* Values of interval_sec, warn_percent and danger_percent a configuration
\* file can carry: negative, zero, inside and beyond the documented ranges.
Intervals == {-1, 0, 1, 2, 30, 31, 60, 61}
WarnPercents == {-5, 0, 70, 100, 120}
DangerPercents == {-5, 0, 50, 90, 100, 130}

\* The configuration Load returns for a file that sets the three values of
\* both modules: the decoded values overlaid on the defaults, normalized.
ConfiguredWith(iv, warn, danger) ==
    normalize([Defaults EXCEPT !.CPU.IntervalSec = iv, !.CPU.WarnPercent = warn,
                               !.CPU.DangerPercent = danger,
                               !.Mem.IntervalSec = iv, !.Mem.WarnPercent = warn,
                               !.Mem.DangerPercent = danger])

\* A module and its configured values, no provider constructed yet.
CInit ==
    /\ \E kind \in {"cpu", "mem"}, iv \in Intervals, warn \in WarnPercents,
          danger \in DangerPercents :
         ctorCase = [NoCtor EXCEPT !.kind = kind, !.iv = iv, !.warn = warn,
                                   !.danger = danger]
    /\ sevCase = NoSeverity
    /\ registry = Registry
    /\ regLog = Registrations
    /\ lastBuild = NoBuild
    /\ prov = ZeroProvider
    /\ built = FALSE
    /\ last = NoOp
    /\ attemptAt = -1
    /\ everOk = FALSE
    /\ clock = 0
    /\ MainIdle

\* NewCpuProvider(cfg) or NewMemoryProvider(cfg): the fields the constructor
\* derives from the configuration.
NewProvider ==
    /\ ~ctorCase.done
    /\ LET cfg == ConfiguredWith(ctorCase.iv, ctorCase.warn, ctorCase.danger)
       IN  ctorCase' = [ctorCase EXCEPT
                          !.p = IF ctorCase.kind = "cpu" THEN NewCpuStruct(cfg)
                                ELSE NewMemoryStruct(cfg),
                          !.done = TRUE]
    /\ UNCHANGED <<registry, regLog, lastBuild, sevCase, ovars, clock, mvars>>

CNext == NewProvider

SpecConstructor == CInit /\ [][CNext]_vars

\* ------------------------------------------------------------------ SpecWatcher

\* The watcher goroutine over a burst of up to MaxBurst events, with time
\* passing between them; main is left where the watcher was started.
MaxBurst == 3

\* main has loaded a configuration file, stored its providers, written the
\* header, aligned and started the watcher.
WInit ==
    /\ pc = "drain"
    /\ hasPath = TRUE
    /\ wOn = TRUE
    /\ wLast = -1
    /\ wPending = FALSE
    /\ wEvents = 0
    /\ \E f \in ConfigFiles, rds \in MainReads :
         /\ interval = TickInterval(LoadFile(f).cfg)
         /\ clock = NextBoundary(0, TickInterval(LoadFile(f).cfg))
         /\ next = NextBoundary(0, TickInterval(LoadFile(f).cfg))
         /\ lists = << BuildProviders(LoadFile(f).cfg, 0, rds) >>
    /\ published = 1
    /\ current = 0
    /\ outq = << >>
    /\ tick = 0
    /\ lastRender = NoRender
    /\ stdout = StartupWrites
    /\ stderr = [k \in LogKinds |-> 0]
    /\ clickCh = << >>
    /\ nread = 0
    /\ delivered = << >>
    /\ input = << >>
    /\ prov = ZeroProvider
    /\ built = FALSE
    /\ last = NoOp
    /\ attemptAt = -1
    /\ everOk = FALSE
    /\ RegistryReady

\* Time passes while the watcher goroutine waits in its select.
Elapse ==
    /\ clock < MaxClock
    /\ clock' = clock + 1
    /\ UNCHANGED <<mvars, pvars>>

BurstOther == WatchOtherWithin(MaxBurst)
BurstEvent == WatchEventWithin(MaxBurst)
BurstError == WatchErrorWithin(MaxBurst)

WNext == BurstOther \/ BurstEvent \/ BurstError \/ Elapse

SpecWatcher == WInit /\ [][WNext]_vars

\* Time does pass; whether further events arrive is up to the file system.
FairSpecWatcher == SpecWatcher /\ WF_vars(Elapse)

\* ------------------------------------------------------------------ SpecDrain

\* The click reader on an input that never ends, and main at the start of a
\* tick. To keep the reader's unending run finite, lines carry labels that
\* cycle through 1..LineLabels, the "click" record count stops at LogCap and
\* delivered holds only the click handled last.
LineLabels == 4
LogCap == 3

\* main at the first entry to drainClicks: the configuration was not found,
\* the default providers are built and stored, the header is written and
\* the clock is aligned to the tick; the reader has been running since
\* before the header and the channel holds what it has sent so far.
DInit ==
    /\ pc = "drain"
    /\ hasPath = FALSE
    /\ interval = TickInterval(LoadNone.cfg)
    /\ clock = NextBoundary(0, TickInterval(LoadNone.cfg))
    /\ next = NextBoundary(0, TickInterval(LoadNone.cfg))
    /\ current = 0
    /\ outq = << >>
    /\ tick = 0
    /\ lastRender = NoRender
    /\ stdout = StartupWrites
    /\ stderr = [k \in LogKinds |-> IF k = "config" THEN 1 ELSE 0]
    /\ \E rds \in MainReads : lists = << BuildProviders(LoadNone.cfg, 0, rds) >>
    /\ published = 1
    /\ \E n \in 0..ClickCap :
         /\ nread = n
         /\ clickCh = [i \in 1..n |-> i]
         /\ input = [i \in 1..n |-> "click"]
    /\ delivered = << >>
    /\ wOn = FALSE
    /\ wLast = -1
    /\ wPending = FALSE
    /\ wEvents = 0
    /\ prov = ZeroProvider
    /\ built = FALSE
    /\ last = NoOp
    /\ attemptAt = -1
    /\ everOk = FALSE
    /\ RegistryReady

\* clicks.Read: one pass of the scan loop on a line that is a click, sent
\* if the channel has room and dropped otherwise. There is always a next
\* line.
StreamLine ==
    /\ nread' = (nread % LineLabels) + 1
    /\ clickCh' = IF Len(clickCh) < ClickCap
                  THEN Append(clickCh, (nread % LineLabels) + 1) ELSE clickCh
    /\ input' = << "click" >>
    /\ UNCHANGED <<delivered, stdout, stderr, lists, published, clock>>
    /\ UNCHANGED <<mlocal, pvars, wvars>>

\* drainClicks: one pass of its loop, a receive handled by handleClick or
\* the default case that returns.
DrainPass ==
    /\ pc = "drain"
    /\ IF clickCh # << >>
       THEN /\ stderr' = [stderr EXCEPT !["click"] = IF @ < LogCap THEN @ + 1 ELSE @]
            /\ delivered' = << Head(clickCh) >>
            /\ clickCh' = Tail(clickCh)
            /\ pc' = "drain"
            /\ UNCHANGED stdout
       ELSE /\ pc' = "load"
            /\ UNCHANGED <<clickCh, delivered, stdout, stderr>>
    /\ UNCHANGED <<hasPath, interval, next, current, outq, tick, lastRender,
                   lists, published, clock, nread, input>>
    /\ UNCHANGED <<pvars, wvars>>

DNext == StreamLine \/ DrainPass \/ LoadList

SpecDrain == DInit /\ [][DNext]_vars

\* Both goroutines scheduled: the reader's scan and main's next step are
\* each taken whenever they stay possible.
FairSpecDrain ==
    /\ SpecDrain
    /\ WF_vars(StreamLine) /\ WF_vars(DrainPass) /\ WF_vars(LoadList)

\* ------------------------------------------------------------------ claims on the render loop

\* The writes of array chunks made so far, as indices into stdout.
Arrays == {i \in 1..Len(stdout) : stdout[i].s = "array"}

\* C1: every batch renderOnce writes holds exactly one display unit per
\* provider of the list it was given, in list order, whichever providers
\* reported changed; a provider that did not change contributes the unit it
\* already had.
C1_BatchOnePerProvider ==
    (lastRender.tick > 0 /\ lastRender.wrote)
    => LET r == lastRender
       IN  /\ Len(r.batch) = Len(r.before)
           /\ Len(r.after) = Len(r.before)
           /\ \A i \in 1..Len(r.before) :
                /\ r.after[i].kind = r.before[i].kind
                /\ r.batch[i] = Current(r.after[i])
                /\ i \notin r.changed => r.batch[i] = Current(r.before[i])
           /\ \A i \in Arrays : stdout[i].tick = r.tick => stdout[i].n = Len(r.before)

\* Three providers of which only the second reported changed, and the batch
\* written.
C1_Witness ==
    /\ lastRender.wrote /\ Len(lastRender.before) = 3
    /\ lastRender.changed = {2}
    /\ \E i \in Arrays : stdout[i].tick = lastRender.tick /\ stdout[i].n = 3

\* C2 as stated: on a tick after the first emitted batch on which no
\* provider reported changed, renderOnce writes nothing.
C2_UnchangedTickSilent ==
    ( /\ lastRender.tick > 0
      /\ \E i \in Arrays : stdout[i].tick < lastRender.tick
      /\ lastRender.changed = {} )
    => ~lastRender.wrote

\* C2 amended: on a tick on which no provider reported changed, renderOnce
\* writes nothing only if the provider list is empty; a batch is written on
\* every tick whose list is not empty.
C2_WritesIffListNonEmpty ==
    lastRender.tick > 0
    => (lastRender.wrote <=> (lastRender.changed # {} \/ Len(lastRender.before) > 0))

\* A later tick on which nothing changed and the batch was written all the same.
C2_Witness ==
    /\ lastRender.tick > 1 /\ lastRender.changed = {}
    /\ \E i \in Arrays : stdout[i].tick < lastRender.tick
    /\ \E i \in Arrays : stdout[i].tick = lastRender.tick

\* C3 as stated: on the first tick a batch is written, for every provider
\* list including the empty one.
C3_FirstTickWrites ==
    lastRender.tick = 1 => lastRender.wrote

\* C3 amended: on the first tick a batch is written even if no provider
\* reported changed, for every provider list but the empty one, for which
\* nothing is written.
C3_FirstTickWritesUnlessEmpty ==
    lastRender.tick = 1
    => /\ Len(lastRender.before) > 0 => lastRender.wrote
       /\ Len(lastRender.before) = 0 => ~lastRender.wrote /\ outq = << >>

\* The first tick with no provider changed, and its batch written.
C3_Witness ==
    /\ tick = 1 /\ lastRender.tick = 1 /\ lastRender.changed = {}
    /\ Len(lastRender.before) > 0
    /\ \E i \in Arrays : stdout[i].tick = 1

\* C4: the three startup lines are written exactly once and before any
\* per-tick line, and every per-tick line is a comma followed by one array.
C4_StartupThenCommaRows ==
    /\ \A i \in 1..Len(stdout) :
         IF i <= 3
         THEN stdout[i].s = <<"header", "[", "[]">>[i]
         ELSE IF i % 2 = 0
         THEN stdout[i].s = ","
         ELSE stdout[i].s = "array" /\ stdout[i].tick = stdout[i - 1].tick
    /\ pc \notin {"boot", "startup"} => Len(stdout) >= 3
    /\ tick > 0 => Len(stdout) >= 3

\* Two whole per-tick lines after the startup lines.
C4_Witness == Len(stdout) >= 7 /\ stdout[7].s = "array"

\* C5: every write to the primary output is the render loop's; what the
\* click reader, the click callback and the watcher log is on the diagnostic
\* stream; no write separates a comma from its array; the batches are in
\* the order of their ticks.
C5_SingleWriter ==
    /\ \A i \in 1..Len(stdout) :
         /\ stdout[i].w = "main"
         /\ stdout[i].s \in {"header", "[", "[]", ",", "array"}
         /\ (stdout[i].s = "," /\ i < Len(stdout))
              => stdout[i + 1].s = "array" /\ stdout[i + 1].tick = stdout[i].tick
    /\ \A i, j \in Arrays : i < j => stdout[i].tick < stdout[j].tick
    /\ stderr["click"] = Len(delivered)
    /\ stderr["click parse"] <= nread

\* Two batches written while the reader, the callback and the watcher have
\* each logged.
C5_Witness ==
    /\ Cardinality(Arrays) >= 2
    /\ stderr["click"] > 0 /\ stderr["click parse"] > 0
    /\ stderr["config reloaded"] > 0

\* ------------------------------------------------------------------ claims on providers

Sampled == {"cpu", "mem"}

\* C6: for every provider kind, a MaybeRefresh call made after construction
\* returns true exactly when Current() after the call differs from Current()
\* before it.
C6_ChangedIffCurrentDiffers ==
    last.op = "refresh" => (last.changed <=> Current(prov) # Current(last.pre))

\* A memory provider's refresh that replaced the display unit.
C6_Witness ==
    /\ last.op = "refresh" /\ prov.kind = "mem"
    /\ last.changed /\ Current(prov) # Current(last.pre)

\* C7 as stated: for a CPU or memory provider, of two MaybeRefresh calls at
\* t1 <= t2 with t2 - t1 less than the interval, the second returns false.
C7_SecondCallFalse ==
    ( /\ last.op = "refresh" /\ prov.kind \in Sampled
      /\ last.prevCallAt # -1
      /\ last.now - last.prevCallAt < prov.intervalNs )
    => ~last.changed

\* C7 amended: ... and the call at t1 made a sample attempt (was not itself
\* stopped by the interval gate), the second returns false.
C7_SecondCallFalseAfterAttempt ==
    ( /\ last.op = "refresh" /\ prov.kind \in Sampled
      /\ last.prevCallAt # -1 /\ last.prevCallRead
      /\ last.now - last.prevCallAt < prov.intervalNs )
    => ~last.changed

\* A CPU provider called again, strictly later but within its interval, after
\* a call that sampled.
C7_Witness ==
    /\ last.op = "refresh" /\ prov.kind = "cpu"
    /\ last.prevCallRead /\ last.prevCallAt < last.now
    /\ last.now - last.prevCallAt < prov.intervalNs
    /\ ~last.changed

\* C8: for a CPU or memory provider, after a sample attempt at instant t
\* (successful or failed) no MaybeRefresh(now) with now - t less than the
\* interval reads the data source.
C8_NoReadWithinInterval ==
    ( /\ last.op = "refresh" /\ prov.kind \in Sampled
      /\ last.prevAttempt # -1
      /\ last.now - last.prevAttempt < prov.intervalNs )
    => ~last.read

\* A memory provider whose source has failed on every read so far, called
\* strictly after its last attempt and within the interval: no read.
C8_Witness ==
    /\ last.op = "refresh" /\ prov.kind = "mem" /\ ~everOk
    /\ last.prevAttempt # -1 /\ last.prevAttempt < last.now
    /\ last.now - last.prevAttempt < prov.intervalNs
    /\ ~last.read

\* C9 as stated: the first successful sample of a CPU provider yields 0% and
\* the display text "<prefix> 0%" (or "<prefix> 0.0%"), also after failed reads.
C9_FirstSampleShowsZero ==
    (prov.kind = "cpu" /\ last.firstOk)
    => /\ prov.lastPercent = RatZero
       /\ prov.blk.full_text
            = MkText(prov.prefix, FALSE, 0,
                     IF prov.precision = 0 THEN <<"%">> ELSE <<".1", "%">>)

\* C10: a failed sample attempt of a CPU or memory provider reports
\* changed=false and changes only the last-attempt timestamp, except that a
\* provider with no display unit yet gets the error placeholder in the
\* danger color.
C10_FailedSampleKeepsState ==
    (prov.kind \in Sampled /\ last.read /\ last.failed)
    => /\ ~last.changed
       /\ prov = [last.pre EXCEPT
                    !.lastSampleNs = last.now,
                    !.blk = IF last.pre.blk.full_text = EmptyText
                            THEN [name |-> prov.kind,
                                  full_text |-> Lit(IF prov.kind = "cpu"
                                                    THEN "cpu err" ELSE "mem err"),
                                  color |-> "#bf616a", sbw |-> 12]
                            ELSE @]

\* A CPU provider holding a snapshot and a real display unit whose read fails.
C10_Witness ==
    /\ prov.kind = "cpu" /\ last.op = "refresh" /\ last.read /\ last.failed
    /\ last.pre.havePrev /\ last.pre.blk.full_text.unit # <<>>
    /\ prov.lastSampleNs > last.pre.lastSampleNs

\* C11 as stated: from the end of construction onward Current() of a
\* provider of any kind returns a display unit whose text is not empty.
C11_DisplayTextNonEmpty ==
    built => Current(prov).full_text # EmptyText

\* ------------------------------------------------------------------ claims on the registry and the builder

\* The names of a list of providers, in list order.
NamesOf(ps) == [i \in 1..Len(ps) |-> ps[i].kind]

\* Whether the registry of the last build holds the name n with a predicate
\* that holds (or no predicate) for the configuration of that build.
Eligible(n) ==
    /\ n \in DOMAIN lastBuild.reg.reg
    /\ \/ lastBuild.reg.reg[n].Enable = "nil"
       \/ lastBuild.reg.reg[n].Enable \in lastBuild.enabled

\* The names mentioned by the module order of the last build.
Mentioned == {lastBuild.order[i] : i \in 1..Len(lastBuild.order)}

\* The names of a sequence of specs, each at its first occurrence only.
RECURSIVE FirstNames(_, _)
FirstNames(log, acc) ==
    IF log = << >> THEN acc
    ELSE FirstNames(Tail(log),
                    IF \E i \in 1..Len(acc) : acc[i] = Head(log).Name
                    THEN acc ELSE Append(acc, Head(log).Name))

C14_RegistrationOrderWhenNoOrder ==
    (lastBuild.called /\ lastBuild.order = << >>)
    => /\ NamesOf(lastBuild.out) = SelectSeq(lastBuild.reg.regOrder, Eligible)
       /\ Len(lastBuild.out)
            = Cardinality({n \in DOMAIN lastBuild.reg.reg : Eligible(n)})

\* Three specs registered, the first one's module disabled: two providers.
C14_Witness ==
    /\ lastBuild.called /\ lastBuild.order = << >>
    /\ Len(lastBuild.reg.regOrder) = 3 /\ ~Eligible(lastBuild.reg.regOrder[1])
    /\ NamesOf(lastBuild.out) = Tail(lastBuild.reg.regOrder)

\* C15: the registration order lists each registered name once, at the
\* position of its first registration, and the stored spec of a name is the
\* one of its latest registration.
C15_FirstPositionLatestSpec ==
    /\ registry.regOrder = FirstNames(regLog, << >>)
    /\ DOMAIN registry.reg = {regLog[i].Name : i \in 1..Len(regLog)}
    /\ \A i \in 1..Len(regLog) :
         (\A j \in (i + 1)..Len(regLog) : regLog[j].Name # regLog[i].Name)
         => registry.reg[regLog[i].Name] = regLog[i]
    /\ \A i, j \in 1..Len(registry.regOrder) :
         i # j => registry.regOrder[i] # registry.regOrder[j]

\* A name registered first, another after it, then the first again with a
\* different spec.
C15_Witness ==
    /\ Len(regLog) = 3 /\ regLog[1].Name = regLog[3].Name
    /\ regLog[1] # regLog[3] /\ regLog[2].Name # regLog[1].Name
    /\ registry.regOrder = <<regLog[1].Name, regLog[2].Name>>
    /\ registry.reg[regLog[1].Name] = regLog[3]

\* ------------------------------------------------------------------ claims on clicks

\* C16: the queue never holds more than its capacity, and a step of the
\* reader that reads a well-formed click while the queue is full leaves the
\* queue as it was and moves on to the next line.
C16_FullQueueDropsNewest ==
    /\ [](Len(clickCh) <= ClickCap)
    /\ [][ ( /\ nread' = nread + 1
             /\ stderr'["click parse"] = stderr["click parse"]
             /\ Len(clickCh) = ClickCap )
           => (clickCh' = clickCh /\ delivered' = delivered) ]_vars

\* Three well-formed clicks read and none handled yet: the queue holds the
\* first two, the third was discarded.
C16_Witness ==
    /\ nread = 3 /\ stderr["click parse"] = 0 /\ delivered = << >>
    /\ Len(clickCh) = ClickCap /\ clickCh = <<1, 2>>

\* C17: the clicks passed to the callback are a subsequence of the
\* well-formed clicks read, in arrival order (clicks are numbered by their
\* input line), none of them twice; what is still queued arrived after
\* everything already passed.
C17_DeliveredInArrivalOrder ==
    /\ \A i, j \in 1..Len(delivered) : i < j => delivered[i] < delivered[j]
    /\ \A i \in 1..Len(delivered) : delivered[i] \in 1..nread
    /\ \A i, j \in 1..Len(clickCh) : i < j => clickCh[i] < clickCh[j]
    /\ \A i \in 1..Len(delivered), j \in 1..Len(clickCh) : delivered[i] < clickCh[j]
    /\ Len(delivered) + Len(clickCh) <= nread - stderr["click parse"]

\* Three clicks read and all three passed to the callback, which the
\* capacity allows only if reading and handling interleave.
C17_Witness ==
    /\ delivered = <<1, 2, 3>> /\ stderr["click"] = 3

\* The input began with a malformed line followed by a well-formed click.
MalformedThenClick ==
    Len(input) >= 2 /\ input[1] = "malformed" /\ input[2] = "click"

\* C18: after a malformed line the reader has logged a diagnostic and goes
\* on to the next line; when a well-formed click follows, the malformed line
\* is never passed to the callback, the click is passed at most once, and,
\* read while the loop's first tick is still ahead, it is eventually passed;
\* the primary output holds nothing but the render loop's own writes.
C18_MalformedSkippedClickDelivered ==
    /\ []( (Len(input) >= 1 /\ input[1] = "malformed")
           => /\ stderr["click parse"] >= 1
              /\ \A i \in 1..Len(delivered) : delivered[i] # 1 )
    /\ (Len(input) = 1 /\ input[1] = "malformed") ~> (Len(input) >= 2)
    /\ []( MalformedThenClick
           => /\ Cardinality({i \in 1..Len(delivered) : delivered[i] <= 2}) <= 1
              /\ \A i \in 1..Len(stdout) :
                   stdout[i].w = "main" /\ stdout[i].s \notin {"click", "click parse"} )
    /\ (MalformedThenClick /\ tick = 0)
         ~> (delivered # << >> /\ delivered[1] = 2 /\ stderr["click"] >= 1)

\* The malformed line logged, the click after it passed to the callback, and
\* a batch written since.
C18_Witness ==
    /\ MalformedThenClick /\ delivered = <<2>>
    /\ stderr["click parse"] = 1 /\ stderr["click"] = 1
    /\ \E i \in 1..Len(stdout) : stdout[i].s = "array"

\* ------------------------------------------------------------------ claims on reloads

\* The provider names of the complete lists BuildProviders can return for
\* the configurations the program can load.
CompleteLists ==
    { NamesOf(BuildProviders(ld.cfg, 0, rds)) :
        ld \in {LoadNone} \cup {LoadFile(f) : f \in ConfigFiles}, rds \in MainReads }

\* C19: a tick works on the one list version it loaded: that version was
\* stored before the load, it is a complete result of BuildProviders, and
\* the batch of the tick holds the unit of each of its providers and of no
\* other, whatever was stored since.
C19_BatchFromOneVersion ==
    /\ pc = "render" => (current \in 1..Len(lists) /\ current <= published)
    /\ lastRender.tick > 0
       => LET v == lastRender.list
          IN  /\ v \in 1..Len(lists) /\ v <= published
              /\ pc = "emit" => v = current
              /\ lists[v] = lastRender.after
              /\ NamesOf(lastRender.before) \in CompleteLists
              /\ NamesOf(lastRender.after) = NamesOf(lastRender.before)
              /\ lastRender.wrote
                 => lastRender.batch = [i \in 1..Len(lists[v]) |-> lists[v][i].blk]
    /\ \A k \in 1..Len(lists) : NamesOf(lists[k]) \in CompleteLists

\* A reload stored a second version while the tick was working on the
\* first: the batch written is the first version's.
C19_Witness ==
    /\ lastRender.tick > 0 /\ lastRender.list = 1 /\ published = 2
    /\ pc = "emit" /\ lastRender.wrote
    /\ NamesOf(lists[2]) # NamesOf(lists[1])
    /\ Len(lastRender.batch) = Len(lists[1])

\* ------------------------------------------------------------------ claims on severity

\* The order of the severities.
Rank(sev) == CASE sev = "Normal" -> 0 [] sev = "Warn" -> 1 [] sev = "Danger" -> 2

\* C20: with warn <= danger the severity of p is Danger iff p >= danger,
\* Warn iff warn <= p < danger, Normal iff p < warn; it does not decrease
\* when p grows; Normal has no color, Warn and Danger one fixed color each.
C20_SeverityByThresholds ==
    (sevCase.done /\ sevCase.warn <= sevCase.danger)
    => LET c == sevCase
           geqDanger == c.p.n >= c.danger * c.p.d
           geqWarn == c.p.n >= c.warn * c.p.d
       IN  /\ c.sevP = "Danger" <=> geqDanger
           /\ c.sevP = "Warn" <=> (geqWarn /\ ~geqDanger)
           /\ c.sevP = "Normal" <=> ~geqWarn
           /\ c.p.n * c.q.d <= c.q.n * c.p.d => Rank(c.sevP) <= Rank(c.sevQ)
           /\ c.colorP = CASE c.sevP = "Normal" -> ""
                           [] c.sevP = "Warn" -> "#d08770"
                           [] c.sevP = "Danger" -> "#bf616a"

\* A percent equal to both thresholds classified Danger, above a percent
\* just below them classified Normal.
C20_Witness ==
    /\ sevCase.done /\ sevCase.warn = 50 /\ sevCase.danger = 50
    /\ sevCase.q = Rat(50, 1) /\ sevCase.sevQ = "Danger"
    /\ sevCase.p = Rat(499, 10) /\ sevCase.sevP = "Normal" /\ sevCase.colorP = ""

\* ------------------------------------------------------------------ claims on providers, continued

\* C21 as stated: a call of the clock's MaybeRefresh in the second last
\* rendered returns false and leaves the display unit unchanged, and a call
\* in a later second re-renders: it reports changed and displays the time
\* of its second.
C21_LaterSecondRerenders ==
    (prov.kind = "time" /\ last.op = "refresh")
    => LET sec == last.now \div Second
       IN  /\ sec = last.pre.lastSec => (~last.changed /\ prov.blk = last.pre.blk)
           /\ sec > last.pre.lastSec
              => /\ last.changed
                 /\ prov.blk.full_text = FormatTime(sec, prov.format)

\* C21 amended: a call of the clock's MaybeRefresh in the second last
\* rendered returns false and leaves the provider as it was; a call in a
\* later second leaves the text of that second displayed, and re-renders
\* (reports changed, replaces the display unit) exactly when that text
\* differs from the text displayed before.
C21_ClockOncePerSecond ==
    (prov.kind = "time" /\ last.op = "refresh")
    => LET sec == last.now \div Second
       IN  /\ sec = last.pre.lastSec => (~last.changed /\ prov = last.pre)
           /\ sec > last.pre.lastSec
              => /\ prov.lastSec = sec
                 /\ prov.blk.full_text = FormatTime(sec, prov.format)
                 /\ last.changed <=> prov.blk # last.pre.blk
                 /\ last.changed => prov.blk.name = "time"

\* Two calls in one second after the second of construction: the first
\* rendered that second, the second call did nothing.
C21_Witness ==
    /\ prov.kind = "time" /\ last.op = "refresh" /\ prov.format # ""
    /\ last.prevCallAt # -1 /\ last.prevCallAt < last.now
    /\ last.now \div Second = last.pre.lastSec
    /\ last.prevCallAt \div Second = last.now \div Second
    /\ ~last.changed
    /\ prov.blk.full_text = FormatTime(last.now \div Second, prov.format)

\* C22 (as stated): for every configured CPU interval value the interval the
\* CPU provider gates on lies within [2s, 30s], 2s when none is configured.
C22_IntervalWithinTwoToThirty ==
    (ctorCase.done /\ ctorCase.kind = "cpu")
    => /\ 2 * Second <= ctorCase.p.intervalNs
       /\ ctorCase.p.intervalNs <= 30 * Second
       /\ ctorCase.iv = 0 => ctorCase.p.intervalNs = 2 * Second

\* C22 (amended): the interval the CPU provider gates on lies within
\* [1s, 30s]: a configured value of 1..30 seconds is used as it is, a larger
\* one becomes 30s, and zero (none configured) or a negative one becomes 2s.
C22_IntervalWithinOneToThirty ==
    (ctorCase.done /\ ctorCase.kind = "cpu")
    => LET iv == ctorCase.iv
           got == ctorCase.p.intervalNs
       IN  /\ 1 * Second <= got /\ got <= 30 * Second
           /\ iv <= 0 => got = 2 * Second
           /\ (1 <= iv /\ iv <= 30) => got = iv * Second
           /\ iv > 30 => got = 30 * Second

C22_Witness ==
    /\ ctorCase.done /\ ctorCase.kind = "cpu"
    /\ ctorCase.iv = 1 /\ ctorCase.p.intervalNs = 1 * Second

\* C23: for every pair of configured warn and danger percentages the
\* thresholds a constructed CPU or memory provider holds satisfy
\* 0 <= warn <= danger <= 100.
C23_ThresholdsOrderedWithinRange ==
    ctorCase.done
    => /\ 0 <= ctorCase.p.warnThreshold
       /\ ctorCase.p.warnThreshold <= ctorCase.p.dangerThreshold
       /\ ctorCase.p.dangerThreshold <= 100

\* ------------------------------------------------------------------ claims on clicks, continued

\* C24: whatever the rate at which the click reader keeps adding events to
\* the queue, the drain at the start of a tick terminates and the tick's
\* render step is eventually reached.
C24_DrainReachesRender == (pc = "drain") ~> (pc = "render")

\* ------------------------------------------------------------------ claims on the CPU sampler

\* C25: a CPU provider's has-previous-snapshot flag is false from
\* construction until its first successful read, becomes true on that read
\* and is never false again; a failed read (and a call that reads nothing)
\* changes neither the flag nor the stored previous counters.
C25_HavePrevSetOnceByFirstSuccess ==
    (prov.kind = "cpu" /\ last.op # "none")
    => /\ prov.havePrev <=> everOk
       /\ last.pre.havePrev => prov.havePrev
       /\ last.firstOk => (~last.pre.havePrev /\ prov.havePrev)
       /\ (last.failed \/ ~last.read)
          => /\ prov.havePrev = last.pre.havePrev
             /\ prov.prevTotal = last.pre.prevTotal
             /\ prov.prevIdle = last.pre.prevIdle

C25_Witness ==
    /\ prov.kind = "cpu" /\ last.op = "refresh"
    /\ last.failed /\ last.pre.havePrev /\ prov.havePrev
    /\ prov.prevTotal > 0 /\ prov.prevTotal = last.pre.prevTotal

\* C26: when a CPU provider that has a previous snapshot reads counters
\* whose total equals the previous total, it keeps the last computed
\* percentage, leaves the display unit unchanged and reports no change.
C26_ZeroDeltaReusesLastPercent ==
    (/\ prov.kind = "cpu" /\ last.op # "none"
     /\ last.read /\ ~last.failed
     /\ last.pre.havePrev /\ prov.prevTotal = last.pre.prevTotal)
    => /\ prov.lastPercent = last.pre.lastPercent
       /\ prov.blk = last.pre.blk
       /\ ~last.changed

C26_Witness ==
    /\ prov.kind = "cpu" /\ last.op = "refresh"
    /\ last.read /\ ~last.failed
    /\ last.pre.havePrev /\ prov.prevTotal = last.pre.prevTotal
    /\ last.pre.lastPercent # RatZero
    /\ prov.lastPercent = last.pre.lastPercent
    /\ ~last.changed

\* ------------------------------------------------------------------ claims on reloads, continued

\* C27: after a burst of change notifications, including one that arrives
\* within the debounce window of the previous reload and is followed by no
\* further watcher event, a reload eventually runs: the pending reload does
\* not stay pending.
C27_PendingReloadEventuallyRuns ==
    (wPending /\ wEvents = MaxBurst) ~> ~wPending

\* ------------------------------------------------------------------ claims on tick pacing

\* The positions of main inside waitUntilNextTickInterval.
InWait == {"alignloop", "waitloop", "waitclick"}

\* C28: the inter-tick wait fixes its target at entry as the first multiple
\* of the tick interval strictly after the entry instant, sleeps in steps of
\* at most the cap, takes at most one queued click after each step, and
\* returns only once the clock has reached the target; handling a click
\* never moves the target and the wait never returns before it.
C28_WaitKeepsTarget ==
    [][ /\ (pc \in {"align", "wait"} /\ pc' \in InWait)
           => /\ next' % interval = 0
              /\ next' > clock /\ next' - interval <= clock
              /\ clock' = clock
        /\ (pc \in InWait /\ pc' \in InWait) => next' = next
        /\ pc \in InWait
           => /\ clock' >= clock /\ clock' - clock <= SleepCap
              /\ clock' <= next
        /\ (pc \in InWait /\ clock' > clock)
           => /\ delivered' = delivered /\ clickCh' = clickCh
              /\ pc = "waitloop" => pc' = "waitclick"
        /\ pc = "waitclick"
           => /\ pc' = "waitloop"
              /\ \/ delivered' = delivered /\ clickCh = << >>
                 \/ /\ clickCh # << >>
                    /\ delivered' = Append(delivered, Head(clickCh))
                    /\ clickCh' = Tail(clickCh)
        /\ (pc \in InWait /\ pc' \notin InWait)
           => /\ clock >= next /\ clock' = clock
              /\ pc \in {"alignloop", "waitloop"}
      ]_<<pc, next, clock, delivered, mlocal>>

C28_Witness ==
    /\ pc = "waitloop" /\ tick >= 1
    /\ next - interval < clock /\ clock < next
    /\ delivered # << >>

\* C29: a reload whose load fails, and a watcher that fails to initialise,
\* leave the stored provider list, every list built so far and the tick
\* interval as they were, and main goes on to its loop; the stored list is
\* replaced only by main's first build and by a reload whose load succeeded.
C29_FailedReloadKeepsList ==
    [][ /\ stderr'["config reload failed"] # stderr["config reload failed"]
           => /\ published' = published /\ lists' = lists
              /\ interval' = interval /\ current' = current /\ pc' = pc
        /\ stderr'["config watcher init"] # stderr["config watcher init"]
           => /\ published' = published /\ lists' = lists
              /\ interval' = interval /\ ~wOn' /\ pc' = "drain"
        /\ published' # published
           => \/ pc = "boot"
              \/ stderr'["config reloaded"] = stderr["config reloaded"] + 1
      ]_vars

C29_Witness ==
    /\ stderr["config reload failed"] = 1
    /\ wLast # -1 /\ wLast < clock
    /\ pc = "emit" /\ published = 1
    /\ lastRender.list = 1 /\ lastRender.wrote

\* ------------------------------------------------------------------ claims on the CPU sampler, continued

\* C30: after every successful sample of a CPU provider its display text is
\* the prefix followed by the formatted percentage of that sample, also
\* when the read at construction failed and the placeholder was displayed.
C30_SuccessfulSampleShowsPercent ==
    (prov.kind = "cpu" /\ last.op # "none" /\ last.read /\ ~last.failed)
    => prov.blk.full_text
         = WithPrefix(prov.prefix, formatPercent(prov.lastPercent, prov.precision))

\* ------------------------------------------------------------------ claims on severity colors

\* C31: after every successful sample of a CPU or memory provider the color
\* of its display unit is the color of the severity of the percent just
\* sampled, also when that percent crosses a threshold while the text stays
\* the same.
C31_ColorFollowsSampledPercent ==
    (prov.kind \in {"cpu", "mem"} /\ last.op # "none" /\ last.read /\ ~last.failed)
    => prov.blk.color
         = ColorFor(SeverityFor(prov.lastPercent, prov.warnThreshold,
                                prov.dangerThreshold))

\* ------------------------------------------------------------------ claims on numeric ranges

\* C32: for every sequence of successful counter reads, also when a counter
\* is lower than in the previous read, the percentage the CPU provider
\* computes lies within [0, 100] and the text displayed is not negative.
C32_CpuPercentWithinRange ==
    (prov.kind = "cpu" /\ last.op # "none")
    => /\ RatGeq(prov.lastPercent, 0)
       /\ prov.lastPercent.n <= 100 * prov.lastPercent.d
       /\ ~prov.blk.full_text.neg

\* The reads of /proc/meminfo that a memory sample storing percent p can
\* have come from.
MemReadsGiving(p) ==
    { rd \in MemInfoReads : ~readMemInfo(rd).err /\ readMemInfo(rd).percent = p }

\* C33: a successful memory read with total > 0, also one whose available
\* figure exceeds the total, yields used <= total, used + available = total
\* and a percent within [0, 100]; a read with the total zero or absent is a
\* failure and leaves an existing display unit as it is.
C33_MemoryFiguresWithinTotal ==
    (prov.kind = "mem" /\ last.op # "none")
    => /\ (last.read /\ ~last.failed)
          => /\ RatGeq(prov.lastPercent, 0)
             /\ prov.lastPercent.n <= 100 * prov.lastPercent.d
             /\ \A rd \in MemReadsGiving(prov.lastPercent) :
                   LET r == readMemInfo(rd)
                   IN  r.used <= r.total /\ r.used + r.available = r.total
       /\ (last.failed /\ last.pre.blk.full_text # EmptyText)
          => prov.blk = last.pre.blk /\ ~last.changed
       /\ \A rd \in MemInfoReads :
             (rd.err \/ rd.memTotal = 0) <=> ReadFailed("mem", rd)

\* ------------------------------------------------------------------ claims on reloads: frame

\* C34: a configuration reload changes only the stored provider list (and
\* logs its record): the tick interval computed at startup, the click queue
\* and its contents, the clicks read and delivered, main's position and
\* what has been written to the primary output are unchanged by it, and
\* the lists built earlier are kept as they are, whatever tick rate the
\* reloaded configuration declares.
C34_ReloadChangesOnlyList ==
    [][ (\/ stderr'["config reloaded"] # stderr["config reloaded"]
         \/ stderr'["config reload failed"] # stderr["config reload failed"])
        => /\ interval' = interval /\ next' = next
           /\ clickCh' = clickCh /\ nread' = nread /\ delivered' = delivered
           /\ stdout' = stdout /\ outq' = outq
           /\ pc' = pc /\ tick' = tick /\ current' = current
           /\ Len(lists') >= Len(lists)
           /\ SubSeq(lists', 1, Len(lists)) = lists
      ]_vars

C34_Witness ==
    /\ stderr["config reloaded"] = 1 /\ published = 2
    /\ lists[published] = << >> /\ lists[1] # << >>
    /\ interval = TickInterval(Defaults)
    /\ clickCh # << >>
    /\ pc = "waitloop" /\ tick >= 1

====
